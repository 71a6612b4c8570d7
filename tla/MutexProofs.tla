----------------------------- MODULE MutexProofs -----------------------------
(***************************************************************************)
(* Proofs about Mutex: priority inheritance ends, and while it lasts the   *)
(* highest ready priority runs but for the moment after a holder fell back *)
(* to its base priority.  Most steps of Mutex are steps of Kernel, so that *)
(* the invariant of KernelProofs carries over; the others are the mutex's  *)
(* own, and each has a lemma that it keeps the invariant.                  *)
(***************************************************************************)
EXTENDS KernelProofs, Mutex

(* The variables this module adds keep their types. *)
MutexTyped ==
  /\ uxBasePriority \in [TCB -> Priority]
  /\ eventValue \in [TCB -> Int]
  /\ pxMutexHolder \in [Event -> Task \cup {NULL}]
  /\ taking \in [Task -> Event \cup {NULL}]
  /\ giving \in Event \cup {NULL}
  /\ disturbed \in BOOLEAN
  /\ lowered \in BOOLEAN

TakePoints == {"taken", "inherit", "place"}

(* A task in the middle of a take knows which mutex it takes. *)
TakersTake ==
  \A t \in TCB : pc[t] \in TakePoints => t \in Task /\ taking[t] \in Event

(* Between the two halves of a give, the task that gives runs, in a critical
   section, and the mutex is already free. *)
GivePhase ==
  phase = "give" =>
    /\ xSchedulerRunning /\ ~yieldPending
    /\ pxCurrentTCB \in Task /\ pc[pxCurrentTCB] = "app"
    /\ giving \in Event /\ pxMutexHolder[giving] = NULL

(* No task locks the scheduler itself: it is suspended only within a kernel
   function. *)
SuspendedInside ==
  phase = "run" /\ uxSchedulerSuspended > 0 => pc[pxCurrentTCB] \in Windows

MutexInv == MutexTyped /\ TakersTake /\ GivePhase /\ SuspendedInside

(* The steps that Kernel's own Next allows. *)
Kernels ==
  \/ MutexBoot
  \/ \E c, t \in Task : MutexSuspendTask(c, t)
  \/ MutexSwitch
  \/ /\ KernelStep
     /\ UNCHANGED <<uxBasePriority, eventValue, mutexVars, historyVars>>

LEMMA KernelsNext == Kernels => Next
<1>1. MutexBoot => Boot
  BY MutexAssumption DEF MutexBoot, Boot
<1>2. ASSUME NEW c \in Task, NEW t \in Task, MutexSuspendTask(c, t)
      PROVE  Next
  BY <1>2 DEF MutexSuspendTask, Next, Call
<1>3. MutexSwitch => Switch
  BY DEF MutexSwitch
<1>4. KernelStep => Next
  BY DEF KernelStep, Next, CallStep, Call
<1>. QED BY <1>1, <1>2, <1>3, <1>4 DEF Kernels, Next

LEMMA MutexNextCases ==
  ASSUME MutexNext
  PROVE  \/ Kernels
         \/ \E t \in Task, m \in Event :
              MutexTake(t, m) \/ MutexLook(t, m) \/ MutexGive(t, m)
         \/ \E t \in Task :
              \/ MutexSuspend(t) \/ MutexInherit(t) \/ MutexLeave(t)
              \/ MutexPlace(t)
         \/ MutexGiven
         \/ \E c, t \in Task, p \in RequestedPriority :
              MutexPrioritySet(c, t, p)
BY DEF MutexNext, Kernels

(* Where the steps of Kernel that this module uses take a task. *)
KernelMoves ==
  /\ phase # "give" /\ phase' # "give"
  /\ \A t \in TCB :
        \/ pc'[t] = pc[t]
        \/ /\ t = pxCurrentTCB /\ pc'[t] \notin TakePoints
           /\ phase \in {"run", "replay"}
           /\ pc[t] \notin TakePoints
  /\ SuspendedInside'

LEMMA KernelsMove ==
  ASSUME Typed, LockInv, StoreInv, MutexInv, Kernels
  PROVE  KernelMoves
<1>. USE DEF tickVars, listVars, delayVars, taskVars, suspendVars, loopVars,
             runVars, KernelMoves, SuspendedInside, Windows, TakePoints
<1>1. CASE MutexBoot
  BY <1>1 DEF MutexBoot, CreateBeforeStart, StartScheduler, Create, LockInv,
              QuietBeforeStart, Typed
<1>2. ASSUME NEW c \in Task, NEW t \in Task, MutexSuspendTask(c, t)
      PROVE  KernelMoves
  <2>1. c \in TCB
    BY DEF TCB
  <2>. QED BY <1>2, <2>1 DEF MutexSuspendTask, SuspendTask, RunsApp, RunsAt,
              Runs, InterruptsEnabled, Goto, Typed, MutexInv
<1>3. CASE MutexSwitch
  BY <1>3 DEF MutexSwitch, Switch, SwitchContext, SwitchAllowed, SwitchMissed,
              InterruptsEnabled, MutexInv
<1>4. CASE KernelStep
  <2>1. ASSUME NEW t \in TCB, YieldWithinAPI(t)
        PROVE  KernelMoves
    BY <2>1 DEF YieldWithinAPI, RequestSwitch, RunsAt, Runs, InterruptsEnabled,
                Goto, Typed, MutexInv
  <2>2. ASSUME NEW t \in TCB, PlaceUnlink(t)
        PROVE  KernelMoves
    BY <2>2 DEF PlaceUnlink, RunsAt, Runs, InterruptsEnabled,
                Goto, Typed, MutexInv
  <2>3. ASSUME NEW t \in TCB, PlaceInsert(t)
        PROVE  KernelMoves
    BY <2>3 DEF PlaceInsert, RunsAt, Runs, InterruptsEnabled,
                Goto, Typed, MutexInv
  <2>4. ASSUME NEW t \in TCB, QueueUnlock(t)
        PROVE  KernelMoves
    BY <2>4 DEF QueueUnlock, RunsAt, Runs, InterruptsEnabled,
                Goto, Typed, MutexInv
  <2>5. ASSUME NEW t \in TCB, ResumeAll(t)
        PROVE  KernelMoves
    <3>1. /\ phase = "run" /\ t = pxCurrentTCB /\ UNCHANGED pxCurrentTCB
          /\ pc[t] \notin TakePoints
          /\ uxSchedulerSuspended' = uxSchedulerSuspended - 1
          /\ \/ pc[t] \in Windows
             \/ uxSchedulerSuspended > 0
      BY <2>5 DEF ResumeAll, RunsApp, RunsAt, Runs, InterruptsEnabled
    <3>2. uxSchedulerSuspended' = 0
      BY <3>1 DEF LockInv, WindowsAlone, MutexInv
    <3>3. CASE phase' = "drain" /\ pc' = pc
      BY <3>1, <3>2, <3>3
    <3>4. CASE phase' = phase /\ Goto(t, AfterResumeAll(pc[t], FALSE))
      <4>1. PICK point \in {"app", "yield", "reap", "idleYield"} :
                   Goto(t, point)
        BY <3>4, AfterResumeAllType
      <4>2. \A u \in TCB : pc'[u] = IF u = t THEN point ELSE pc[u]
        BY <4>1 DEF Goto, Typed
      <4>3. phase = "run" /\ phase' = "run"
        BY <3>1, <3>4
      <4>4. ~(uxSchedulerSuspended' > 0)
        BY <3>2
      <4>. QED BY <3>1, <4>2, <4>3, <4>4
    <3>. QED BY <2>5, <3>3, <3>4 DEF ResumeAll
  <2>6. ASSUME NEW c \in Task, NEW t \in Task, ResumeTask(c, t)
        PROVE  KernelMoves
    BY <2>6 DEF ResumeTask, RunsApp, RunsAt, Runs, InterruptsEnabled, MutexInv
  <2>7. CASE IdleStep
    <3>0. Idle \in TCB
      BY DEF TCB
    <3>1. CASE IdleSuspend
      BY <3>0, <3>1 DEF IdleSuspend, SuspendAll, RunsAt, Runs,
                  InterruptsEnabled, Goto, Typed, MutexInv
    <3>2. CASE IdleReadList
      <4>1. \/ Goto(Idle, "reapEmpty")
            \/ Goto(Idle, "reapFull")
        BY <3>2 DEF IdleReadList
      <4>. QED BY <3>0, <3>2, <4>1 DEF IdleReadList, RunsAt, Runs,
                  InterruptsEnabled, Goto, Typed, MutexInv
    <3>3. CASE IdleReap
      BY <3>0, <3>3 DEF IdleReap, Reap, RunsAt, Runs,
                  InterruptsEnabled, Goto, Typed, MutexInv
    <3>4. CASE IdleLoop
      BY <3>0, <3>4 DEF IdleLoop, RunsAt, Runs,
                  InterruptsEnabled, Goto, Typed, MutexInv
    <3>. QED BY <2>7, <3>1, <3>2, <3>3, <3>4 DEF IdleStep
  <2>8. CASE MaskedStep
    <3>1. CASE ResumeAllDone
      <4>1. PICK point \in {"app", "yield", "reap", "idleYield"} :
                   Goto(pxCurrentTCB, point)
        BY <3>1, AfterResumeAllType DEF ResumeAllDone
      <4>2. xSchedulerRunning /\ pxCurrentTCB \in TCB
        BY <3>1 DEF ResumeAllDone, LockInv, QuietBeforeStart
      <4>3. pc[pxCurrentTCB] \notin TakePoints
        BY <3>1 DEF ResumeAllDone, StoreInv, LoopCaller
      <4>. QED BY <3>1, <4>1, <4>2, <4>3 DEF ResumeAllDone, Goto, Typed,
                  LockInv, MaskedUnsuspended
    <3>2. CASE ~ResumeAllDone
      BY <2>8, <3>2 DEF MaskedStep, DrainPending, DrainDone, ReplayTick,
            ReplayTickDone, WakeHead, TickInterruptDone, LockInv,
            MaskedUnsuspended, Typed
    <3>. QED BY <3>1, <3>2
  <2>9. CASE TickISR
    BY <2>9 DEF TickISR, TickInterrupt, TickInterruptMissed, InterruptsEnabled,
                MutexInv, Typed
  <2>. QED BY <1>4, <2>1, <2>2, <2>3, <2>4, <2>5, <2>6, <2>7, <2>8, <2>9
           DEF KernelStep
<1>. QED BY <1>1, <1>2, <1>3, <1>4 DEF Kernels

Base == Typed /\ LockInv /\ StoreInv /\ MutexInv

(* A task that is given by name runs, in its own code. *)
LEMMA AtApp ==
  ASSUME Base, NEW t \in Task, Runs(t), pc[t] \in {"app", "taken"}
  PROVE  /\ t \in TCB /\ xSchedulerRunning /\ phase = "run" /\ ~yieldPending
         /\ pxCurrentTCB = t /\ t \in allocated /\ uxSchedulerSuspended = 0
         /\ \A u \in TCB : pc[u] \notin Windows
         /\ store.generic[t] = pxReadyTasksLists(uxPriority[t])
<1>1. t \in TCB
  BY DEF TCB
<1>2. /\ xSchedulerRunning /\ phase = "run" /\ ~yieldPending
      /\ pxCurrentTCB = t /\ t \in allocated
      /\ \A u \in TCB : u # t => pc[u] \notin Windows
      /\ store.generic[t] \in ReadyLists
  BY <1>1, RunningTask DEF Base
<1>3. pc[t] \notin Windows
  BY DEF Windows
<1>4. uxSchedulerSuspended = 0
  BY <1>2, <1>3 DEF Base, Typed, MutexInv, SuspendedInside
<1>5. store.generic[t] = pxReadyTasksLists(uxPriority[t])
  BY <1>1, <1>2, <1>3, ListNames
     DEF Base, StoreInv, Placement, BetweenLists, Windows
<1>. QED BY <1>1, <1>2, <1>3, <1>4, <1>5

LEMMA LookKept ==
  ASSUME Base, NEW t \in Task, NEW m \in Event, MutexLook(t, m)
  PROVE  Base'
<1>. USE DEF tickVars, listVars, delayVars, taskVars, suspendVars, loopVars,
             runVars
<1>1. Runs(t) /\ pc[t] = "app" /\ Goto(t, "taken")
  BY DEF MutexLook, MayBlock, RunsApp, RunsAt
<1>2. /\ t \in TCB /\ xSchedulerRunning /\ phase = "run" /\ ~yieldPending
      /\ pxCurrentTCB = t /\ t \in allocated /\ uxSchedulerSuspended = 0
      /\ \A u \in TCB : pc[u] \notin Windows
  BY <1>1, AtApp
<1>3. \A u \in TCB : pc'[u] = IF u = t THEN "taken" ELSE pc[u]
  BY <1>1 DEF Goto, Base, Typed
<1>4. Typed'
  BY <1>1, GotoType DEF MutexLook, Base, Typed, CallPoints
<1>5. LockInv'
  BY <1>2, <1>3 DEF MutexLook, LockInv, WindowsAlone, QuietBeforeStart,
        MaskedUnsuspended, TickOutsideWindows, ReplayedTickCounted,
        LockHolder, Windows
<1>6. StoreInv'
  <2>1. LoopCaller'
    BY <1>2 DEF MutexLook, LoopCaller
  <2>2. MustBeReady(t)' => MustBeReady(t)
    BY <1>2, <1>1 DEF MustBeReady
  <2>3. ~BetweenLists(t)
    BY <1>1 DEF BetweenLists
  <2>. QED BY <1>1, <1>2, <2>1, <2>2, <2>3, GotoStore DEF MutexLook, Base
<1>7. MutexInv'
  <2>1. taking' = [taking EXCEPT ![t] = m]
    BY DEF MutexLook
  <2>. QED BY <1>2, <1>3, <2>1 DEF MutexLook, MutexInv, MutexTyped,
              TakersTake, GivePhase, SuspendedInside, Base, historyVars
<1>. QED BY <1>4, <1>5, <1>6, <1>7 DEF Base

LEMMA TakeKept ==
  ASSUME Base, NEW t \in Task, NEW m \in Event, MutexTake(t, m)
  PROVE  Base'
<1>1. UNCHANGED vars
  BY DEF MutexTake
<1>2. Typed' /\ LockInv' /\ StoreInv'
  BY <1>1, StutterTypes, StutterLock, StutterStore DEF Base
<1>3. pc[t] = "app" /\ phase = "run" /\ t \in TCB
  BY DEF MutexTake, MayBlock, RunsApp, RunsAt, Runs, InterruptsEnabled, TCB
<1>4. UNCHANGED <<pc, phase, uxSchedulerSuspended, pxCurrentTCB>>
  BY <1>1 DEF vars, suspendVars, loopVars, runVars
<1>5. MutexInv'
  BY <1>3, <1>4 DEF MutexTake, Base, MutexInv, MutexTyped, TakersTake,
                    TakePoints, GivePhase, SuspendedInside, historyVars
<1>. QED BY <1>2, <1>5 DEF Base

LEMMA SuspendKept ==
  ASSUME Base, NEW t \in Task, MutexSuspend(t)
  PROVE  Base'
<1>. USE DEF tickVars, listVars, delayVars, taskVars, suspendVars, loopVars,
             runVars
<1>1. /\ Runs(t) /\ pc[t] = "taken" /\ SuspendAll(t, "inherit")
      /\ Goto(t, "inherit")
  BY DEF MutexSuspend, RunsAt, SuspendAll
<1>2. /\ t \in TCB /\ xSchedulerRunning /\ phase = "run" /\ ~yieldPending
      /\ pxCurrentTCB = t /\ t \in allocated /\ uxSchedulerSuspended = 0
      /\ \A u \in TCB : pc[u] \notin Windows
  BY <1>1, AtApp
<1>3. \A u \in TCB : pc'[u] = IF u = t THEN "inherit" ELSE pc[u]
  BY <1>1 DEF Goto, Base, Typed
<1>4. Typed'
  <2>1. queueLock' \in [Event -> {"unlocked", "locked", "posted"}]
    BY DEF MutexSuspend, Base, Typed
  <2>2. "inherit" \in CallPoints
    BY DEF CallPoints, Windows
  <2>. QED BY <1>1, <1>2, <2>1, <2>2, SuspendAllTypes DEF Base
<1>5. LockInv'
  BY <1>1, <1>2, <1>3 DEF SuspendAll, LockInv, WindowsAlone, QuietBeforeStart,
        MaskedUnsuspended, TickOutsideWindows, ReplayedTickCounted,
        LockHolder, Windows, Base
<1>6. StoreInv'
  <2>1. LoopCaller'
    BY <1>1, <1>2 DEF SuspendAll, LoopCaller
  <2>2. MustBeReady(t)' => MustBeReady(t)
    BY <1>2, <1>1 DEF MustBeReady
  <2>3. ~BetweenLists(t)
    BY <1>1 DEF BetweenLists
  <2>. QED BY <1>1, <1>2, <2>1, <2>2, <2>3, GotoStore DEF SuspendAll, Base
<1>7. MutexInv'
  <2>1. taking[t] \in Event
    BY <1>1, <1>2 DEF Base, MutexInv, TakersTake, TakePoints
  <2>2. UNCHANGED <<uxBasePriority, eventValue, mutexVars, historyVars>>
    BY DEF MutexSuspend
  <2>3. "inherit" \in Windows /\ phase' = "run" /\ pxCurrentTCB' = t
    BY <1>1, <1>2 DEF SuspendAll, Windows
  <2>. QED BY <1>2, <1>3, <2>1, <2>2, <2>3 DEF MutexInv, MutexTyped,
              TakersTake, GivePhase, SuspendedInside, Base, mutexVars,
              historyVars
<1>. QED BY <1>4, <1>5, <1>6, <1>7 DEF Base

(* What the task of highest priority that waits lends the holder. *)
LEMMA InheritEffect ==
  ASSUME Base, NEW t \in Task, MutexInherit(t)
  PROVE  \E h \in Task, new \in Priority :
           /\ h = pxMutexHolder[taking[t]]
           /\ taking[t] \in Event
           /\ t \in TCB /\ h \in TCB
           /\ uxPriority' = [uxPriority EXCEPT ![h] = new]
           /\ uxPriority[h] <= new
           /\ uxPriority[t] <= new
           /\ new # uxPriority[h] => h # t /\ new = uxPriority[t]
           /\ IF store.generic[h] = pxReadyTasksLists(uxPriority[h])
              THEN \/ AddTaskToReadyQueue(RemoveGeneric(store, h), h, new)
                   \/ new = uxPriority[h] /\ UNCHANGED listVars
              ELSE UNCHANGED listVars
           /\ \/ /\ new # uxPriority[h]
                 /\ eventValue' = [eventValue EXCEPT
                                     ![h] = configMAX_PRIORITIES - new]
              \/ new = uxPriority[h] /\ UNCHANGED eventValue
<1> DEFINE h == pxMutexHolder[taking[t]]
           p == uxPriority[pxCurrentTCB]
<1>1. /\ Runs(t) /\ pc[t] = "inherit" /\ pxCurrentTCB = t
      /\ h # NULL /\ Inherit(h)
  BY DEF MutexInherit, RunsAt, Runs
<1>2. t \in TCB
  BY DEF TCB
<1>3. taking[t] \in Event
  BY <1>1, <1>2 DEF Base, MutexInv, TakersTake, TakePoints
<1>4. h \in Task /\ h \in TCB
  BY <1>1, <1>3 DEF Base, MutexInv, MutexTyped, TCB
<1>5. p \in Priority /\ uxPriority[h] \in Priority /\ p = uxPriority[t]
  BY <1>1, <1>2, <1>4 DEF Base, Typed
<1>. HIDE DEF h
<1>6. CASE uxPriority[h] < p
  <2>1. /\ eventValue' = [eventValue EXCEPT ![h] = configMAX_PRIORITIES - p]
        /\ uxPriority' = [uxPriority EXCEPT ![h] = p]
        /\ IF store.generic[h] = pxReadyTasksLists(uxPriority[h])
           THEN AddTaskToReadyQueue(RemoveGeneric(store, h), h, p)
           ELSE UNCHANGED listVars
    BY <1>1, <1>6 DEF Inherit
  <2>. HIDE DEF p
  <2>2. uxPriority[h] <= p /\ uxPriority[t] <= p /\ p # uxPriority[h] /\ h # t
    BY <1>5, <1>6 DEF Priority
  <2>. QED BY <1>2, <1>3, <1>4, <1>5, <2>1, <2>2 DEF h
<1>7. CASE ~(uxPriority[h] < p)
  <2>1. UNCHANGED <<eventValue, uxPriority, listVars>>
    BY <1>1, <1>7 DEF Inherit
  <2>2. uxPriority' = [uxPriority EXCEPT ![h] = uxPriority[h]]
    BY <2>1, <1>4 DEF Base, Typed
  <2>3. uxPriority[t] <= uxPriority[h] /\ uxPriority[h] <= uxPriority[h]
    BY <1>5, <1>7 DEF Priority
  <2>. QED BY <1>2, <1>3, <1>4, <1>5, <2>1, <2>2, <2>3 DEF h
<1>. QED BY <1>6, <1>7

(* A step within a window of the kernel, from one point of it to another. *)
LEMMA WindowLock ==
  ASSUME Base, NEW t \in Task, Runs(t), pc[t] \in Windows,
         NEW point \in Windows, Goto(t, point),
         UNCHANGED <<phase, uxSchedulerSuspended, uxMissedTicks, pxCurrentTCB,
                     xSchedulerRunning>>
  PROVE  LockInv' /\ SuspendedInside'
<1>1. t \in TCB /\ pxCurrentTCB = t /\ xSchedulerRunning /\ phase = "run"
  BY DEF TCB, Runs, InterruptsEnabled
<1>2. \A u \in TCB : pc'[u] = IF u = t THEN point ELSE pc[u]
  BY <1>1 DEF Goto, Base, Typed
<1>. QED BY <1>1, <1>2
         DEF Base, LockInv, WindowsAlone, QuietBeforeStart, MaskedUnsuspended,
             TickOutsideWindows, ReplayedTickCounted, LockHolder,
             SuspendedInside

LEMMA InheritKept ==
  ASSUME Base, NEW t \in Task, MutexInherit(t)
  PROVE  Base'
<1>. USE DEF tickVars, listVars, delayVars, taskVars, suspendVars, loopVars,
             runVars
<1>1. /\ Runs(t) /\ pc[t] = "inherit" /\ Goto(t, "place") /\ phase = "run"
      /\ "inherit" \in Windows /\ "place" \in Windows /\ t \in TCB
      /\ pxCurrentTCB = t
  BY DEF MutexInherit, RunsAt, Runs, InterruptsEnabled, Windows, TCB
<1>2. PICK h \in Task, new \in Priority :
           /\ h = pxMutexHolder[taking[t]]
           /\ taking[t] \in Event
           /\ t \in TCB /\ h \in TCB
           /\ uxPriority' = [uxPriority EXCEPT ![h] = new]
           /\ uxPriority[h] <= new
           /\ new # uxPriority[h] => h # t /\ new = uxPriority[t]
           /\ IF store.generic[h] = pxReadyTasksLists(uxPriority[h])
              THEN \/ AddTaskToReadyQueue(RemoveGeneric(store, h), h, new)
                   \/ new = uxPriority[h] /\ UNCHANGED listVars
              ELSE UNCHANGED listVars
           /\ \/ eventValue' = [eventValue EXCEPT
                                  ![h] = configMAX_PRIORITIES - new]
              \/ UNCHANGED eventValue
  BY InheritEffect
<1>3. \A u \in TCB : pc'[u] = IF u = t THEN "place" ELSE pc[u]
  BY <1>1 DEF Goto, Base, Typed
<1>4. LockInv' /\ SuspendedInside'
  BY <1>1, WindowLock DEF MutexInherit
<1>5. /\ UNCHANGED <<allocated, pxCurrentTCB, xSchedulerRunning, phase,
                     yieldPending, uxSchedulerSuspended>>
      /\ \A u \in TCB : BetweenLists(u) <=> BetweenLists(u)'
      /\ \A u \in TCB : pc[u] \in {"placeGeneric", "placeInsert"}
                          => pc'[u] \in {"placeGeneric", "placeInsert"}
  BY <1>1, <1>3 DEF MutexInherit, BetweenLists
<1>6. LoopCaller' /\ MustBeReady(pxCurrentTCB)
  BY <1>1, <1>5 DEF LoopCaller, MustBeReady
<1>7. ~BetweenLists(h)
  <2>1. h # t => pc[h] \notin Windows
    BY <1>1, <1>2 DEF Base, LockInv, WindowsAlone
  <2>. QED BY <1>1, <2>1 DEF BetweenLists, Windows
<1>8. /\ Typed' /\ StoreInv'
  <2>1. \/ AddTaskToReadyQueue(RemoveGeneric(store, h), h, new)
        \/ UNCHANGED listVars
    BY <1>2
  <2>2. store' \in Stores /\ uxTopReadyPriority' \in Priority
    BY <1>2, <2>1, AddTaskType, RemoveGenericType DEF Base, Typed
  <2>3. pc' \in [TCB -> CallPoints]
    BY <1>1, GotoType DEF Base, Typed, CallPoints
  <2>4. uxPriority' \in [TCB -> Priority]
    BY <1>2 DEF Base, Typed
  <2>5. Typed'
    BY <1>5, <2>2, <2>3, <2>4 DEF MutexInherit, Base, Typed
  <2>6. CASE UNCHANGED listVars /\ new = uxPriority[h]
    <3>1. UNCHANGED <<store, uxPriority>>
      BY <1>2, <2>6 DEF Base, Typed
    <3>. QED BY <1>5, <1>6, <2>5, <3>1, UnchangedStore DEF Base
  <2>7. CASE IF store.generic[h] = pxReadyTasksLists(uxPriority[h])
             THEN store' = InsertEndGeneric(RemoveGeneric(store, h),
                                            pxReadyTasksLists(new), h)
             ELSE store' = store
    BY <1>2, <1>5, <1>6, <1>7, <2>5, <2>7, ReprioritisedStore DEF Base
  <2>. QED BY <1>2, <2>6, <2>7 DEF AddTaskToReadyQueue
<1>9. MutexInv'
  <2>1. eventValue' \in [TCB -> Int]
    BY <1>2, PrioritiesAssumption DEF Base, MutexInv, MutexTyped, Priority
  <2>2. UNCHANGED <<uxBasePriority, mutexVars, historyVars>>
    BY DEF MutexInherit
  <2>. QED BY <1>1, <1>2, <1>3, <1>4, <1>5, <2>1, <2>2
           DEF MutexInv, MutexTyped, TakersTake, GivePhase, Base,
               mutexVars, historyVars
<1>. QED BY <1>4, <1>8, <1>9 DEF Base

LEMMA LeaveKept ==
  ASSUME Base, NEW t \in Task, MutexLeave(t)
  PROVE  Base'
<1>. USE DEF tickVars, listVars, delayVars, taskVars, suspendVars, loopVars,
             runVars
<1>1. /\ Runs(t) /\ pc[t] = "inherit" /\ Goto(t, "unlock") /\ phase = "run"
      /\ "inherit" \in Windows /\ "unlock" \in Windows /\ t \in TCB
      /\ pxCurrentTCB = t
  BY DEF MutexLeave, RunsAt, Runs, InterruptsEnabled, Windows, TCB
<1>2. \A u \in TCB : pc'[u] = IF u = t THEN "unlock" ELSE pc[u]
  BY <1>1 DEF Goto, Base, Typed
<1>3. LockInv' /\ SuspendedInside'
  BY <1>1, WindowLock DEF MutexLeave
<1>4. Typed'
  BY <1>1, GotoType DEF MutexLeave, Base, Typed, CallPoints
<1>5. StoreInv'
  <2>1. LoopCaller' /\ MustBeReady(t) /\ ~BetweenLists(t)
    BY <1>1 DEF MutexLeave, LoopCaller, MustBeReady, BetweenLists
  <2>. QED BY <1>1, <2>1, GotoStore DEF MutexLeave, Base
<1>6. MutexInv'
  <2>1. \A u \in TCB : pc'[u] \in TakePoints => u # t /\ pc[u] \in TakePoints
    BY <1>2 DEF TakePoints
  <2>2. taking' \in [Task -> Event \cup {NULL}]
    BY DEF MutexLeave, Base, MutexInv, MutexTyped
  <2>3. \A u \in Task : u # t => taking'[u] = taking[u]
    BY DEF MutexLeave, Base, MutexInv, MutexTyped
  <2>4. TakersTake'
    BY <2>1, <2>3 DEF Base, MutexInv, TakersTake
  <2>. QED BY <1>1, <1>3, <2>2, <2>4
           DEF MutexLeave, MutexInv, MutexTyped, GivePhase, Base, historyVars
<1>. QED BY <1>3, <1>4, <1>5, <1>6 DEF Base

LEMMA PlaceKept ==
  ASSUME Base, NEW t \in Task, MutexPlace(t)
  PROVE  Base'
<1>. USE DEF tickVars, listVars, delayVars, taskVars, suspendVars, loopVars,
             runVars
<1>1. /\ Runs(t) /\ pc[t] = "place" /\ Goto(t, "placeGeneric")
      /\ phase = "run" /\ t \in TCB /\ pxCurrentTCB = t
      /\ "place" \in Windows /\ "placeGeneric" \in Windows
  BY DEF MutexPlace, RunsAt, Runs, InterruptsEnabled, Windows, TCB
<1>2. taking[t] \in Event
  BY <1>1 DEF Base, MutexInv, TakersTake, TakePoints
<1>3. \A u \in TCB : pc'[u] = IF u = t THEN "placeGeneric" ELSE pc[u]
  BY <1>1 DEF Goto, Base, Typed
<1>4. LockInv' /\ SuspendedInside'
  BY <1>1, WindowLock DEF MutexPlace
<1>5. Typed'
  <2>1. store' \in Stores
    BY <1>1, <1>2, InsertType, ListNames DEF MutexPlace, Base, Typed
  <2>. QED BY <1>1, <2>1, GotoType DEF MutexPlace, Base, Typed, CallPoints
<1>6. StoreInv'
  BY <1>1, <1>2, PlacedStore DEF MutexPlace, Base
<1>7. MutexInv'
  <2>1. \A u \in TCB : pc'[u] \in TakePoints => u # t /\ pc[u] \in TakePoints
    BY <1>3 DEF TakePoints
  <2>2. UNCHANGED <<uxBasePriority, eventValue, mutexVars, historyVars, phase>>
    BY DEF MutexPlace
  <2>. QED BY <1>1, <1>4, <2>1, <2>2
           DEF MutexInv, MutexTyped, TakersTake, GivePhase, Base, mutexVars,
               historyVars
<1>. QED BY <1>4, <1>5, <1>6, <1>7 DEF Base

(* The holder, ready as it runs, changes lists as its priority falls back. *)
LEMMA GiveEffect ==
  ASSUME Base, NEW t \in Task, NEW m \in Event, MutexGive(t, m)
  PROVE  /\ Runs(t) /\ pc[t] = "app" /\ taking[t] = NULL
         /\ pxMutexHolder[m] = t
         /\ t \in TCB /\ uxBasePriority[t] \in Priority
         /\ uxPriority' = [uxPriority EXCEPT ![t] = uxBasePriority[t]]
         /\ store.generic[t] = pxReadyTasksLists(uxPriority[t])
         /\ \/ /\ AddTaskToReadyQueue(RemoveGeneric(store, t), t,
                                      uxBasePriority[t])
               /\ uxPriority[t] # uxBasePriority[t]
               /\ lowered' = TRUE
               /\ eventValue' = [eventValue EXCEPT
                       ![t] = configMAX_PRIORITIES - uxBasePriority[t]]
            \/ /\ uxPriority[t] = uxBasePriority[t]
               /\ UNCHANGED <<store, uxTopReadyPriority, uxPriority, lowered,
                              eventValue>>
<1>1. /\ Runs(t) /\ pc[t] = "app" /\ pxMutexHolder[m] = t /\ taking[t] = NULL
  BY DEF MutexGive, MayBlock, Idles, RunsApp, RunsAt
<1>2. t \in TCB /\ store.generic[t] = pxReadyTasksLists(uxPriority[t])
  BY <1>1, AtApp
<1>3. uxBasePriority[t] \in Priority
  BY <1>2 DEF Base, MutexInv, MutexTyped
<1>4. CASE uxPriority[t] # uxBasePriority[t]
  BY <1>1, <1>2, <1>3, <1>4 DEF MutexGive, Disinherit
<1>5. CASE uxPriority[t] = uxBasePriority[t]
  <2>1. uxPriority' = uxPriority
    BY <1>5 DEF MutexGive, Disinherit
  <2>2. uxPriority' = [uxPriority EXCEPT ![t] = uxBasePriority[t]]
    BY <1>2, <1>5, <2>1 DEF Base, Typed
  <2>. QED BY <1>1, <1>2, <1>3, <1>5, <2>2
           DEF MutexGive, Disinherit, listVars
<1>. QED BY <1>4, <1>5

LEMMA GiveKept ==
  ASSUME Base, NEW t \in Task, NEW m \in Event, MutexGive(t, m)
  PROVE  Base'
<1>. USE DEF tickVars, delayVars, suspendVars, runVars
<1>1. /\ Runs(t) /\ pc[t] = "app"
      /\ uxBasePriority[t] \in Priority
      /\ uxPriority' = [uxPriority EXCEPT ![t] = uxBasePriority[t]]
      /\ store.generic[t] = pxReadyTasksLists(uxPriority[t])
  BY GiveEffect
<1>2. /\ t \in TCB /\ xSchedulerRunning /\ phase = "run" /\ ~yieldPending
      /\ pxCurrentTCB = t /\ t \in allocated /\ uxSchedulerSuspended = 0
      /\ \A u \in TCB : pc[u] \notin Windows
  BY <1>1, AtApp
<1>3. UNCHANGED <<pc, allocated, pxCurrentTCB, xSchedulerRunning, yieldPending,
                  uxSchedulerSuspended, uxMissedTicks>>
      /\ phase' = "give"
  BY DEF MutexGive
<1>4. \/ AddTaskToReadyQueue(RemoveGeneric(store, t), t, uxBasePriority[t])
      \/ /\ uxPriority[t] = uxBasePriority[t]
         /\ UNCHANGED <<store, uxTopReadyPriority, uxPriority>>
  BY GiveEffect
<1>5. Typed'
  <2>1. store' \in Stores /\ uxTopReadyPriority' \in Priority
    BY <1>1, <1>2, <1>4, AddTaskType, RemoveGenericType DEF Base, Typed
  <2>2. uxPriority' \in [TCB -> Priority]
    BY <1>1 DEF Base, Typed
  <2>3. phase' \in CallPhases
    BY <1>3 DEF CallPhases
  <2>. QED BY <2>1, <2>2, <2>3 DEF MutexGive, Base, Typed
<1>6. LockInv'
  BY <1>2, <1>3 DEF Base, LockInv, WindowsAlone, QuietBeforeStart,
        MaskedUnsuspended, TickOutsideWindows, ReplayedTickCounted, LockHolder
<1>7. StoreInv'
  <2>1. /\ LoopCaller' /\ MustBeReady(pxCurrentTCB) /\ ~BetweenLists(t)
        /\ \A u \in TCB : BetweenLists(u) <=> BetweenLists(u)'
    BY <1>1, <1>2, <1>3 DEF LoopCaller, MustBeReady, BetweenLists
  <2>2. CASE AddTaskToReadyQueue(RemoveGeneric(store, t), t, uxBasePriority[t])
    BY <1>1, <1>2, <1>3, <2>1, <2>2, ReprioritisedStore
       DEF Base, AddTaskToReadyQueue
  <2>3. CASE UNCHANGED <<store, uxPriority>>
    BY <1>3, <2>1, <2>3, UnchangedStore DEF Base
  <2>. QED BY <1>4, <2>2, <2>3
<1>8. MutexInv'
  <2>1. eventValue' \in [TCB -> Int]
    <3>1. configMAX_PRIORITIES - uxBasePriority[t] \in Int
      BY <1>1, PrioritiesAssumption DEF Priority
    <3>2. \/ eventValue' = [eventValue EXCEPT
                   ![t] = configMAX_PRIORITIES - uxBasePriority[t]]
          \/ eventValue' = eventValue
      BY GiveEffect
    <3>. QED BY <3>1, <3>2 DEF Base, MutexInv, MutexTyped
  <2>2. lowered' \in BOOLEAN
    BY GiveEffect DEF Base, MutexInv, MutexTyped
  <2>3. /\ pxMutexHolder' = [pxMutexHolder EXCEPT ![m] = NULL]
        /\ giving' = m
        /\ UNCHANGED <<uxBasePriority, taking, disturbed>>
    BY DEF MutexGive
  <2>. QED BY <1>1, <1>2, <1>3, <2>1, <2>2, <2>3
           DEF Base, MutexInv, MutexTyped, TakersTake, GivePhase,
               SuspendedInside
<1>. QED BY <1>5, <1>6, <1>7, <1>8 DEF Base

LEMMA GivenEffect ==
  ASSUME Base, MutexGiven, HasWaiter(giving)
  PROVE  LET t == OwnerOfHead(store, EventList(giving))
         IN  /\ t \in allocated /\ t \in TCB /\ ~BetweenLists(t)
             /\ Readied(t)
             /\ StoreOK(store')
             /\ store.event[t] = EventList(giving)
             /\ store'.generic = [store.generic EXCEPT
                                    ![t] = pxReadyTasksLists(uxPriority[t])]
             /\ store'.event = [store.event EXCEPT ![t] = NULL]
             /\ yieldPending' = (uxPriority[t] >= uxPriority[pxCurrentTCB])
             /\ Unheld
<1> DEFINE t == OwnerOfHead(store, EventList(giving))
<1>1. /\ giving \in Event /\ phase = "give" /\ uxSchedulerSuspended = 0
      /\ RemoveFromEventList(giving) /\ UNCHANGED taskVars
      /\ yieldPending' = (uxPriority[t] >= uxPriority[pxCurrentTCB])
      /\ uxSchedulerSuspended' = 0
  BY DEF MutexGiven, Base, MutexInv, GivePhase, LockInv, MaskedUnsuspended,
         UnblocksHigher, suspendVars
<1>2. /\ t \in allocated /\ StoreOK(store') /\ ~BetweenLists(t)
      /\ store'.generic = [store.generic EXCEPT
                             ![t] = pxReadyTasksLists(uxPriority[t])]
      /\ store'.event = [store.event EXCEPT ![t] = NULL]
  BY <1>1, EventRemovalStore DEF Base
<1>3. t \in TCB /\ Readied(t)
      /\ \A u \in TCB : store'.event[u] = xPendingReadyList =>
                   \/ store.event[u] = xPendingReadyList
                   \/ uxSchedulerSuspended > 0
  BY <1>1, SignalEffect DEF Base
<1>4. store.event[t] = EventList(giving)
  BY <1>1, HeadEvent, ListNames DEF Base, HasWaiter
<1>. QED BY <1>1, <1>2, <1>3, <1>4 DEF Unheld

LEMMA GivenKept ==
  ASSUME Base, MutexGiven
  PROVE  Base'
<1>. USE DEF tickVars, listVars, delayVars, taskVars, suspendVars, runVars
<1>1. /\ phase = "give" /\ phase' = "run" /\ giving \in Event
      /\ xSchedulerRunning /\ ~yieldPending
      /\ pxCurrentTCB \in Task /\ pc[pxCurrentTCB] = "app"
      /\ uxSchedulerSuspended = 0
      /\ \A u \in TCB : pc[u] \notin Windows
  BY DEF MutexGiven, Base, MutexInv, GivePhase, LockInv, MaskedUnsuspended,
         TickOutsideWindows
<1>2. UNCHANGED <<pc, allocated, pxCurrentTCB, xSchedulerRunning, uxPriority,
                  uxSchedulerSuspended, uxMissedTicks>>
  BY DEF MutexGiven
<1>3. Typed'
  <2>1. CASE HasWaiter(giving)
    <3>1. /\ store' \in Stores
          /\ uxTopReadyPriority' \in Priority
          /\ xItemValue' \in [TCB -> Tick]
          /\ ticksLeft' \in [TCB -> Tick]
      BY <1>1, <2>1, RemoveFromEventListType DEF MutexGiven, Base
    <3>2. yieldPending' \in BOOLEAN
      BY <2>1, GivenEffect
    <3>3. phase' \in CallPhases
      BY <1>1 DEF CallPhases
    <3>. QED BY <3>1, <3>2, <3>3 DEF MutexGiven, Base, Typed
  <2>2. CASE ~HasWaiter(giving)
    BY <2>2, <1>1 DEF MutexGiven, Base, Typed, CallPhases
  <2>. QED BY <2>1, <2>2
<1>4. LockInv'
  BY <1>1, <1>2 DEF Base, LockInv, WindowsAlone, QuietBeforeStart,
        MaskedUnsuspended, TickOutsideWindows, ReplayedTickCounted, LockHolder,
        Typed
<1>5. StoreInv'
  <2>1. LoopCaller' /\ MustBeReady(pxCurrentTCB)
    BY <1>1 DEF LoopCaller, MustBeReady
  <2>2. CASE HasWaiter(giving)
    <3>1. PICK u \in allocated :
            /\ ~BetweenLists(u)
            /\ StoreOK(store')
            /\ store'.generic = [store.generic EXCEPT
                                   ![u] = pxReadyTasksLists(uxPriority[u])]
            /\ store'.event = [store.event EXCEPT ![u] = NULL]
      BY <2>2, GivenEffect
    <3>. QED BY <1>2, <2>1, <3>1, ReadiedStore DEF Base
  <2>3. CASE ~HasWaiter(giving)
    <3>1. UNCHANGED store
      BY <2>3 DEF MutexGiven
    <3>2. \A u \in TCB : BetweenLists(u) <=> BetweenLists(u)'
      BY <1>2 DEF BetweenLists
    <3>. QED BY <1>2, <2>1, <3>1, <3>2, UnchangedStore DEF Base
  <2>. QED BY <2>2, <2>3
<1>6. MutexInv'
  BY <1>1, <1>2 DEF MutexGiven, Base, MutexInv, MutexTyped, TakersTake,
     GivePhase, SuspendedInside, historyVars
<1>. QED BY <1>3, <1>4, <1>5, <1>6 DEF Base

(* A task that inherits keeps the priority it uses, and its place: it is not
   in the ready list of its base priority. *)
LEMMA PrioritySetBase ==
  ASSUME Base, NEW c \in Task, NEW t \in Task, NEW p \in RequestedPriority,
         MutexPrioritySet(c, t, p)
  PROVE  /\ Runs(c) /\ pc[c] = "app" /\ t \in TCB /\ t \in allocated
         /\ Capped(p) \in Priority
         /\ uxBasePriority' = [uxBasePriority EXCEPT ![t] = Capped(p)]
         /\ \/ /\ uxBasePriority[t] = uxPriority[t]
               /\ uxPriority' = [uxPriority EXCEPT ![t] = Capped(p)]
               /\ IF store.generic[t] = pxReadyTasksLists(uxPriority[t])
                  THEN AddTaskToReadyQueue(RemoveGeneric(store, t), t,
                                           Capped(p))
                  ELSE UNCHANGED listVars
               /\ yieldPending' = (IF Capped(p) > uxPriority[t]
                                   THEN t # c ELSE t = c)
            \/ /\ uxBasePriority[t] # uxPriority[t]
               /\ UNCHANGED <<uxPriority, listVars>>
<1>1. /\ Runs(c) /\ pc[c] = "app" /\ t \in allocated
      /\ uxBasePriority' = [uxBasePriority EXCEPT ![t] = Capped(p)]
      /\ UseNewPriority(t, Capped(p))
      /\ IF store.generic[t] = pxReadyTasksLists(uxBasePriority[t])
         THEN AddTaskToReadyQueue(RemoveGeneric(store, t), t, uxPriority'[t])
         ELSE UNCHANGED listVars
      /\ yieldPending' = (IF Capped(p) > uxBasePriority[t]
                          THEN t # c ELSE t = c)
  BY DEF MutexPrioritySet, RunsApp, RunsAt, Live
<1>2. /\ t \in TCB /\ Capped(p) \in Priority /\ uxBasePriority[t] \in Priority
      /\ uxPriority[t] \in Priority
  <2>1. t \in TCB /\ p \in Nat
    BY PrioritiesAssumption DEF TCB, RequestedPriority
  <2>. QED BY <2>1, CappedType DEF Base, Typed, MutexInv, MutexTyped
<1>3. CASE uxBasePriority[t] = uxPriority[t]
  <2>1. uxPriority' = [uxPriority EXCEPT ![t] = Capped(p)]
    BY <1>1, <1>3 DEF UseNewPriority
  <2>2. uxPriority'[t] = Capped(p)
    BY <1>2, <2>1 DEF Base, Typed
  <2>. QED BY <1>1, <1>2, <1>3, <2>1, <2>2
<1>4. CASE uxBasePriority[t] # uxPriority[t]
  <2>1. UNCHANGED uxPriority
    BY <1>1, <1>4 DEF UseNewPriority
  <2>2. pxReadyTasksLists(uxBasePriority[t]) # pxReadyTasksLists(uxPriority[t])
    BY <1>2, <1>4, ListNames
  <2>3. pxReadyTasksLists(uxBasePriority[t])
            \notin DelayLists \cup {xSuspendedTaskList, NULL,
                                    xTasksWaitingTermination}
    BY <1>2, ListNames, ListsDisjoint
  <2>4. store.generic[t] # pxReadyTasksLists(uxBasePriority[t])
    BY <1>1, <1>2, <2>2, <2>3 DEF Base, StoreInv, Placement
  <2>. QED BY <1>1, <1>2, <1>4, <2>1, <2>4
<1>. QED BY <1>3, <1>4

LEMMA PrioritySetKept ==
  ASSUME Base, NEW c \in Task, NEW t \in Task, NEW p \in RequestedPriority,
         MutexPrioritySet(c, t, p)
  PROVE  Base'
<1>. USE DEF tickVars, listVars, delayVars, suspendVars, loopVars, runVars
<1>1. /\ Runs(c) /\ pc[c] = "app" /\ t \in TCB /\ t \in allocated
      /\ Capped(p) \in Priority
      /\ uxBasePriority' = [uxBasePriority EXCEPT ![t] = Capped(p)]
  BY PrioritySetBase
<1>2. \/ /\ uxPriority' = [uxPriority EXCEPT ![t] = Capped(p)]
         /\ IF store.generic[t] = pxReadyTasksLists(uxPriority[t])
            THEN AddTaskToReadyQueue(RemoveGeneric(store, t), t, Capped(p))
            ELSE UNCHANGED <<store, uxTopReadyPriority>>
      \/ UNCHANGED <<uxPriority, store, uxTopReadyPriority>>
  BY PrioritySetBase
<1>3. /\ c \in TCB /\ xSchedulerRunning /\ phase = "run" /\ ~yieldPending
      /\ pxCurrentTCB = c /\ uxSchedulerSuspended = 0
      /\ \A u \in TCB : pc[u] \notin Windows
  BY <1>1, AtApp
<1>4. UNCHANGED <<pc, phase, allocated, pxCurrentTCB, xSchedulerRunning,
                  uxSchedulerSuspended, uxMissedTicks>>
  BY DEF MutexPrioritySet
<1>5. Typed'
  <2>1. store' \in Stores /\ uxTopReadyPriority' \in Priority
    BY <1>1, <1>2, AddTaskType, RemoveGenericType DEF Base, Typed
  <2>2. uxPriority' \in [TCB -> Priority]
    BY <1>1, <1>2 DEF Base, Typed
  <2>3. yieldPending' \in BOOLEAN
    BY DEF MutexPrioritySet
  <2>. QED BY <2>1, <2>2, <2>3 DEF MutexPrioritySet, Base, Typed
<1>6. LockInv'
  BY <1>4 DEF Base, LockInv, WindowsAlone, QuietBeforeStart,
        MaskedUnsuspended, TickOutsideWindows, ReplayedTickCounted, LockHolder
<1>7. StoreInv'
  <2>1. /\ LoopCaller' /\ MustBeReady(pxCurrentTCB) /\ ~BetweenLists(t)
        /\ \A u \in TCB : BetweenLists(u) <=> BetweenLists(u)'
    BY <1>1, <1>3, <1>4 DEF LoopCaller, MustBeReady, BetweenLists, Windows
  <2>2. CASE UNCHANGED <<store, uxPriority>>
    BY <1>4, <2>1, <2>2, UnchangedStore DEF Base
  <2>3. CASE /\ uxPriority' = [uxPriority EXCEPT ![t] = Capped(p)]
             /\ IF store.generic[t] = pxReadyTasksLists(uxPriority[t])
                THEN store' = InsertEndGeneric(RemoveGeneric(store, t),
                                         pxReadyTasksLists(Capped(p)), t)
                ELSE store' = store
    BY <1>1, <1>4, <2>1, <2>3, ReprioritisedStore DEF Base
  <2>. QED BY <1>2, <2>2, <2>3 DEF AddTaskToReadyQueue
<1>8. MutexInv'
  <2>1. eventValue' \in [TCB -> Int]
    BY <1>1, PrioritiesAssumption
       DEF MutexPrioritySet, Base, MutexInv, MutexTyped, Priority
  <2>2. uxBasePriority' \in [TCB -> Priority]
    BY <1>1 DEF Base, MutexInv, MutexTyped
  <2>3. /\ UNCHANGED <<mutexVars, lowered>> /\ disturbed' = TRUE
    BY DEF MutexPrioritySet
  <2>. QED BY <1>3, <1>4, <2>1, <2>2, <2>3
           DEF Base, MutexInv, MutexTyped, TakersTake, GivePhase,
               SuspendedInside, mutexVars
<1>. QED BY <1>5, <1>6, <1>7, <1>8 DEF Base

(* What the steps of Kernel leave alone here: nobody's priority, but that of a
   task that is created, and no mutex. *)
LEMMA KernelsLeave ==
  ASSUME Kernels
  PROVE  /\ UNCHANGED mutexVars
         /\ \/ MutexBoot
            \/ UNCHANGED <<uxPriority, uxBasePriority, eventValue>>
<1>. USE DEF taskVars
<1>1. CASE MutexBoot
  BY <1>1 DEF MutexBoot
<1>2. ASSUME NEW c \in Task, NEW t \in Task, MutexSuspendTask(c, t)
      PROVE  UNCHANGED <<uxPriority, uxBasePriority, eventValue, mutexVars>>
  BY <1>2 DEF MutexSuspendTask, SuspendTask
<1>3. CASE MutexSwitch
  BY <1>3 DEF MutexSwitch, Switch, SwitchContext, SwitchMissed
<1>4. CASE KernelStep /\ UNCHANGED <<uxBasePriority, eventValue, mutexVars>>
  <2>1. UNCHANGED uxPriority
    BY <1>4 DEF KernelStep, YieldWithinAPI, RequestSwitch, PlaceUnlink,
         PlaceInsert, QueueUnlock, ResumeAll, ResumeTask, IdleStep, IdleSuspend,
         SuspendAll, IdleReadList, IdleReap, Reap, IdleLoop, MaskedStep,
         DrainPending, DrainDone, ReplayTick, ReplayTickDone, ResumeAllDone,
         WakeHead, TickInterruptDone, TickISR, TickInterrupt,
         TickInterruptMissed
  <2>. QED BY <1>4, <2>1
<1>. QED BY <1>1, <1>2, <1>3, <1>4 DEF Kernels

(* The task that main() creates has one priority. *)
LEMMA BootPriorities ==
  ASSUME Base, MutexBoot
  PROVE  \E t \in TCB :
           /\ t \notin allocated /\ uxPriority'[t] \in Priority
           /\ \A u \in TCB : u # t => uxPriority'[u] = uxPriority[u]
           /\ InitialisePriorities(t)
           /\ Typed'
           /\ ~xSchedulerRunning
<1>1. PICK t \in TCB, p \in RequestedPriority :
        /\ Create(t, p) /\ InitialisePriorities(t) /\ ~xSchedulerRunning
  <2>1. CASE StartScheduler /\ InitialisePriorities(Idle)
    <3>1. Idle \in TCB /\ 0 \in RequestedPriority
      BY PrioritiesAssumption DEF TCB, RequestedPriority
    <3>. QED BY <2>1, <3>1 DEF StartScheduler
  <2>2. ASSUME NEW t \in Task, CreateBeforeStart(t, StartPriority[t]),
               InitialisePriorities(t)
        PROVE  \E u \in TCB, p \in RequestedPriority :
                 /\ Create(u, p) /\ InitialisePriorities(u)
                 /\ ~xSchedulerRunning
    <3>1. t \in TCB /\ StartPriority[t] \in RequestedPriority
      BY MutexAssumption DEF TCB
    <3>. QED BY <2>2, <3>1 DEF CreateBeforeStart
  <2>. QED BY <2>1, <2>2 DEF MutexBoot
<1>2. t \notin allocated /\ uxPriority' = [uxPriority EXCEPT ![t] = Capped(p)]
  BY <1>1 DEF Create
<1>3. Typed'
  BY KernelsNext, TypeStep DEF Kernels, Base
<1>. QED BY <1>1, <1>2, <1>3 DEF Base, Typed

LEMMA KernelsKept ==
  ASSUME Base, Kernels
  PROVE  Base'
<1>1. Typed' /\ LockInv' /\ StoreInv'
  BY KernelsNext, TypeStep, LockStep, StoreStep DEF Base
<1>2. KernelMoves /\ UNCHANGED mutexVars
  BY KernelsMove, KernelsLeave DEF Base
<1>3. uxBasePriority' \in [TCB -> Priority] /\ eventValue' \in [TCB -> Int]
  <2>1. CASE MutexBoot
    <3>1. PICK t \in TCB : /\ uxPriority'[t] \in Priority
                           /\ InitialisePriorities(t)
      BY <2>1, BootPriorities
    <3>2. configMAX_PRIORITIES - uxPriority'[t] \in Int
      BY <3>1, PrioritiesAssumption DEF Priority
    <3>. QED BY <3>1, <3>2 DEF InitialisePriorities, Base, MutexInv, MutexTyped
  <2>. QED BY <2>1, KernelsLeave DEF Base, MutexInv, MutexTyped
<1>4. disturbed' \in BOOLEAN /\ lowered' \in BOOLEAN
  BY DEF Base, MutexInv, MutexTyped, Kernels, MutexBoot, MutexSuspendTask,
         MutexSwitch, historyVars
<1>5. TakersTake'
  BY <1>2 DEF Base, MutexInv, TakersTake, KernelMoves, mutexVars
<1>6. MutexInv'
  BY <1>2, <1>3, <1>4, <1>5
     DEF Base, MutexInv, MutexTyped, GivePhase, KernelMoves, mutexVars
<1>. QED BY <1>1, <1>6 DEF Base

LEMMA BaseInit == MutexInit => Base
<1>1. MutexInit => Typed /\ LockInv /\ StoreInv
  BY InitTypes, InitLock, InitStore DEF MutexInit
<1>2. ASSUME MutexInit
      PROVE  MutexInv
  <2>1. 0 \in Priority /\ configMAX_PRIORITIES \in Int
    BY PrioritiesAssumption DEF Priority
  <2>2. MutexTyped
    BY <1>2, <2>1 DEF MutexInit, MutexTyped
  <2>3. /\ \A t \in TCB : pc[t] = "app"
        /\ phase = "run" /\ uxSchedulerSuspended = 0
    BY <1>2 DEF MutexInit, Init
  <2>. QED BY <2>2, <2>3 DEF MutexInv, TakersTake, TakePoints, GivePhase,
              SuspendedInside
<1>. QED BY <1>1, <1>2 DEF Base

LEMMA BaseStep == Base /\ [MutexNext]_mVars => Base'
<1>1. ASSUME Base, MutexNext
      PROVE  Base'
  BY <1>1, MutexNextCases, KernelsKept, TakeKept, LookKept, GiveKept,
     SuspendKept, InheritKept, LeaveKept, PlaceKept, GivenKept, PrioritySetKept
<1>2. ASSUME Base, UNCHANGED mVars
      PROVE  Base'
  <2>1. Typed' /\ LockInv' /\ StoreInv'
    BY <1>2, StutterTypes, StutterLock, StutterStore DEF Base, mVars
  <2>2. MutexInv'
    BY <1>2 DEF mVars, vars, mutexVars, historyVars, loopVars, runVars,
         suspendVars, Base, MutexInv, MutexTyped, TakersTake, GivePhase,
         SuspendedInside
  <2>. QED BY <2>1, <2>2 DEF Base
<1>. QED BY <1>1, <1>2

LEMMA BaseInvariance == MutexSpec => []Base
<1>. QED BY BaseInit, BaseStep, PTL DEF MutexSpec

-----------------------------------------------------------------------------
(* A task that holds nothing has its own priority *)

LEMMA RestoredStep ==
  ASSUME Base, PriorityRestored, MutexNext
  PROVE  PriorityRestored'
<1>. USE DEF PriorityRestored
<1>1. CASE Kernels
  <2>1. CASE MutexBoot
    <3>1. PICK t \in TCB :
            /\ \A u \in TCB : u # t => uxPriority'[u] = uxPriority[u]
            /\ InitialisePriorities(t)
      BY <2>1, BootPriorities
    <3>2. \A u \in TCB : uxBasePriority'[u] =
                           IF u = t THEN uxPriority'[t] ELSE uxBasePriority[u]
      BY <3>1 DEF InitialisePriorities, Base, MutexInv, MutexTyped
    <3>. QED BY <1>1, <3>1, <3>2, KernelsLeave DEF mutexVars
  <2>2. CASE UNCHANGED <<uxPriority, uxBasePriority>>
    BY <1>1, <2>2, KernelsLeave DEF mutexVars
  <2>. QED BY <1>1, <2>1, <2>2, KernelsLeave
<1>2. ASSUME NEW t \in Task, NEW m \in Event, MutexTake(t, m)
      PROVE  PriorityRestored'
  <2>1. /\ pxMutexHolder[m] = NULL
        /\ \A n \in Event : n # m => pxMutexHolder'[n] = pxMutexHolder[n]
        /\ UNCHANGED <<uxPriority, uxBasePriority>>
    BY <1>2 DEF MutexTake, Base, MutexInv, MutexTyped, vars, taskVars
  <2>2. NULL \notin TCB
    BY NullAssumption DEF TCB
  <2>. QED BY <2>1, <2>2
<1>3. ASSUME NEW t \in Task, NEW m \in Event, MutexGive(t, m)
      PROVE  PriorityRestored'
  <2>1. /\ pxMutexHolder[m] = t /\ t \in TCB
        /\ uxPriority' = [uxPriority EXCEPT ![t] = uxBasePriority[t]]
    BY <1>3, GiveEffect
  <2>2. /\ \A n \in Event : n # m => pxMutexHolder'[n] = pxMutexHolder[n]
        /\ UNCHANGED uxBasePriority
    BY <1>3 DEF MutexGive, Base, MutexInv, MutexTyped
  <2>. QED BY <2>1, <2>2 DEF Base, Typed
<1>4. ASSUME NEW t \in Task, MutexInherit(t)
      PROVE  PriorityRestored'
  <2>1. PICK h \in Task, new \in Priority :
           /\ h = pxMutexHolder[taking[t]]
           /\ taking[t] \in Event
           /\ uxPriority' = [uxPriority EXCEPT ![h] = new]
    BY <1>4, InheritEffect
  <2>2. UNCHANGED <<pxMutexHolder, uxBasePriority>>
    BY <1>4 DEF MutexInherit, mutexVars
  <2>. QED BY <2>1, <2>2 DEF Base, Typed
<1>5. ASSUME NEW c \in Task, NEW t \in Task, NEW p \in RequestedPriority,
             MutexPrioritySet(c, t, p)
      PROVE  PriorityRestored'
  <2>1. /\ t \in TCB
        /\ uxBasePriority' = [uxBasePriority EXCEPT ![t] = Capped(p)]
        /\ \/ /\ uxBasePriority[t] = uxPriority[t]
              /\ uxPriority' = [uxPriority EXCEPT ![t] = Capped(p)]
           \/ /\ uxBasePriority[t] # uxPriority[t]
              /\ UNCHANGED uxPriority
    BY <1>5, PrioritySetBase
  <2>2. UNCHANGED pxMutexHolder
    BY <1>5 DEF MutexPrioritySet, mutexVars
  <2>. QED BY <2>1, <2>2 DEF Base, Typed, MutexInv, MutexTyped
<1>6. ASSUME NEW t \in Task, NEW m \in Event, MutexLook(t, m)
      PROVE  PriorityRestored'
  BY <1>6 DEF MutexLook, taskVars
<1>7. ASSUME NEW t \in Task, MutexSuspend(t) \/ MutexLeave(t) \/ MutexPlace(t)
      PROVE  PriorityRestored'
  BY <1>7 DEF MutexSuspend, SuspendAll, MutexLeave, MutexPlace, taskVars,
              mutexVars
<1>8. CASE MutexGiven
  BY <1>8 DEF MutexGiven, taskVars
<1>. QED BY <1>1, <1>2, <1>3, <1>4, <1>5, <1>6, <1>7, <1>8, MutexNextCases

(* What a task has inherited ends with the mutex: whatever priorities are set
   and whichever waits time out meanwhile, a task that holds no mutex uses its
   base priority (vTaskPriorityDisinherit, vTaskPrioritySet). *)
THEOREM InheritanceEnds == MutexSpec => []PriorityRestored
<1>1. MutexInit => PriorityRestored
  BY DEF MutexInit, Init, PriorityRestored
<1>2. Base /\ PriorityRestored /\ [MutexNext]_mVars => PriorityRestored'
  <2>1. UNCHANGED mVars /\ PriorityRestored => PriorityRestored'
    BY DEF mVars, vars, taskVars, mutexVars, PriorityRestored
  <2>. QED BY <2>1, RestoredStep
<1>. QED BY <1>1, <1>2, BaseInvariance, PTL DEF MutexSpec

(* What the dispatcher relies on, whether a switch is owed or not. *)
Dispatching == HeldBack /\ Cached /\ IdleReady /\ Counted

OwedButLowered == lowered \/ SwitchOwed(FALSE)

LEMMA OwnDispatching ==
  ASSUME Base, Base', Dispatching, Effect, HeldBack',
         xSchedulerRunning, xSchedulerRunning', pc'[Idle] = pc[Idle]
  PROVE  Dispatching'
<1>1. Cached'
  BY EffectCached DEF Base, Dispatching
<1>2. IdlePlace
  BY DEF IdlePlace, Dispatching, IdleReady, Counted
<1>3. Counted'
  BY <1>2, CountedStep DEF Base, Dispatching
<1>4. IdleReady'
  BY EffectIdle DEF Base, Dispatching, IdleReady
<1>. QED BY <1>1, <1>3, <1>4 DEF Dispatching

LEMMA KernelsDispatching ==
  ASSUME Base, Dispatching, Kernels
  PROVE  Dispatching'
<1>1. Typed' /\ Next
  BY KernelsNext, KernelsKept DEF Base
<1>2. Effect /\ Unheld /\ IdlePlace
  BY <1>1, StepEffect, IdlePlaceStep DEF Base, Dispatching
<1>3. HeldBack'
  BY <1>1, <1>2, HeldBackStep DEF Base, Dispatching
<1>4. Cached'
  BY <1>1, <1>2, EffectCached DEF Base, Dispatching
<1>5. IdleReady'
  BY <1>1, <1>2, IdleReadyStep DEF Base, Dispatching
<1>6. Counted'
  BY <1>1, <1>2, CountedStep DEF Base, Dispatching
<1>. QED BY <1>3, <1>4, <1>5, <1>6 DEF Dispatching

(* A context switch chooses the highest ready priority, whatever fell. *)
LEMMA KernelsOwed ==
  ASSUME Base, Dispatching, OwedButLowered, Kernels
  PROVE  OwedButLowered'
<1>1. CASE SwitchOwed(FALSE)
  <2>1. DispatchInvIf(FALSE)
    BY <1>1 DEF Dispatching, DispatchInvIf, FirstTop
  <2>2. DispatchInvIf(FALSE)'
    BY <2>1, KernelsNext, DispatchStep DEF Base
  <2>. QED BY <2>2 DEF DispatchInvIf, OwedButLowered
<1>2. CASE lowered /\ ~SwitchContext
  <2>1. lowered' = lowered
    BY <1>2 DEF Kernels, MutexBoot, MutexSuspendTask, MutexSwitch, Switch,
                SwitchMissed, historyVars, Base, MutexInv, MutexTyped
  <2>. QED BY <1>2, <2>1 DEF OwedButLowered
<1>3. CASE SwitchContext
  <2>1. /\ Searched /\ pxCurrentTCB' \in TCB
        /\ store.generic[pxCurrentTCB'] = pxReadyTasksLists(uxTopReadyPriority')
        /\ uxPriority[pxCurrentTCB'] = uxTopReadyPriority'
    BY <1>3, SwitchEffect DEF Base, Dispatching
  <2>2. HighestRuns(FALSE)'
    BY <2>1 DEF HighestRuns, Searched
  <2>. QED BY <2>2 DEF OwedButLowered, SwitchOwed
<1>. QED BY <1>1, <1>2, <1>3 DEF OwedButLowered

(* The effect on the lists of the steps of a take and of a give. *)
LEMMA InheritedEffect ==
  ASSUME Base, NEW t \in Task, MutexInherit(t)
  PROVE  \E h \in Task :
           /\ \/ Reprioritised(h)
              \/ Stayed /\ store.generic[h] # pxReadyTasksLists(uxPriority[h])
              \/ Stayed /\ UNCHANGED uxPriority
           /\ uxPriority'[h] # uxPriority[h] =>
                h # t /\ uxPriority'[h] = uxPriority[t]
           /\ \A u \in TCB : u # h => uxPriority'[u] = uxPriority[u]
           /\ store'.event = store.event
<1>1. PICK h \in Task, new \in Priority :
           /\ h \in TCB
           /\ uxPriority' = [uxPriority EXCEPT ![h] = new]
           /\ new # uxPriority[h] => h # t /\ new = uxPriority[t]
           /\ IF store.generic[h] = pxReadyTasksLists(uxPriority[h])
              THEN \/ AddTaskToReadyQueue(RemoveGeneric(store, h), h, new)
                   \/ new = uxPriority[h] /\ UNCHANGED listVars
              ELSE UNCHANGED listVars
  BY InheritEffect
<1>2. TasksKept
  BY DEF MutexInherit, TasksKept
<1>3. \A u \in TCB : uxPriority'[u] = IF u = h THEN new ELSE uxPriority[u]
  BY <1>1 DEF Base, Typed
<1>4. CASE new = uxPriority[h] /\ UNCHANGED listVars
  <2>1. UNCHANGED uxPriority
    BY <1>1, <1>4 DEF Base, Typed
  <2>. QED BY <1>1, <1>2, <1>3, <1>4, <2>1 DEF Stayed, listVars
<1>5. CASE IF store.generic[h] = pxReadyTasksLists(uxPriority[h])
           THEN AddTaskToReadyQueue(RemoveGeneric(store, h), h, new)
           ELSE UNCHANGED listVars
  <2>1. /\ \/ Reprioritised(h)
           \/ Stayed /\ store.generic[h] # pxReadyTasksLists(uxPriority[h])
        /\ store'.event = store.event
    BY <1>1, <1>2, <1>5, RepriorityEffect DEF Base, StoreInv
  <2>. QED BY <1>1, <1>3, <2>1
<1>. QED BY <1>1, <1>4, <1>5

LEMMA GaveEffect ==
  ASSUME Base, NEW t \in Task, NEW m \in Event, MutexGive(t, m)
  PROVE  /\ \/ Reprioritised(t) /\ lowered' = TRUE
            \/ Stayed /\ UNCHANGED <<uxPriority, lowered>>
         /\ store'.event = store.event
<1>1. /\ t \in TCB /\ uxBasePriority[t] \in Priority
      /\ uxPriority' = [uxPriority EXCEPT ![t] = uxBasePriority[t]]
      /\ store.generic[t] = pxReadyTasksLists(uxPriority[t])
      /\ \/ /\ AddTaskToReadyQueue(RemoveGeneric(store, t), t,
                                   uxBasePriority[t])
            /\ uxPriority[t] # uxBasePriority[t]
            /\ lowered' = TRUE
         \/ UNCHANGED <<store, uxTopReadyPriority, uxPriority, lowered>>
  BY GiveEffect
<1>2. TasksKept
  BY DEF MutexGive, TasksKept
<1>3. CASE UNCHANGED <<store, uxTopReadyPriority, uxPriority, lowered>>
  BY <1>2, <1>3 DEF Stayed
<1>4. CASE /\ AddTaskToReadyQueue(RemoveGeneric(store, t), t,
                                  uxBasePriority[t])
           /\ lowered' = TRUE
  <2>1. /\ \/ Reprioritised(t)
           \/ Stayed /\ store.generic[t] # pxReadyTasksLists(uxPriority[t])
        /\ store'.event = store.event
    BY <1>1, <1>2, <1>4, RepriorityEffect DEF Base, StoreInv
  <2>. QED BY <1>1, <1>4, <2>1
<1>. QED BY <1>1, <1>3, <1>4

LEMMA SetEffect ==
  ASSUME Base, NEW c \in Task, NEW t \in Task, NEW p \in RequestedPriority,
         MutexPrioritySet(c, t, p)
  PROVE  /\ \/ /\ \/ Reprioritised(t)
                  \/ /\ Stayed
                     /\ store.generic[t] # pxReadyTasksLists(uxPriority[t])
               /\ uxPriority'[t] = Capped(p)
               /\ uxPriority[t] # Capped(p)
               /\ yieldPending' = (IF Capped(p) > uxPriority[t]
                                   THEN t # c ELSE t = c)
               /\ \A u \in TCB : u # t => uxPriority'[u] = uxPriority[u]
            \/ Stayed /\ UNCHANGED uxPriority
         /\ store'.event = store.event
<1>1. /\ t \in TCB /\ Capped(p) \in Priority
      /\ \/ /\ uxBasePriority[t] = uxPriority[t]
            /\ uxPriority' = [uxPriority EXCEPT ![t] = Capped(p)]
            /\ IF store.generic[t] = pxReadyTasksLists(uxPriority[t])
               THEN AddTaskToReadyQueue(RemoveGeneric(store, t), t, Capped(p))
               ELSE UNCHANGED listVars
            /\ yieldPending' = (IF Capped(p) > uxPriority[t]
                                THEN t # c ELSE t = c)
         \/ UNCHANGED <<uxPriority, listVars>>
  BY PrioritySetBase
<1>2. TasksKept /\ Capped(p) # uxBasePriority[t]
  BY DEF MutexPrioritySet, TasksKept
<1>3. CASE UNCHANGED <<uxPriority, listVars>>
  BY <1>2, <1>3 DEF Stayed, listVars
<1>4. CASE /\ uxBasePriority[t] = uxPriority[t]
           /\ uxPriority' = [uxPriority EXCEPT ![t] = Capped(p)]
           /\ IF store.generic[t] = pxReadyTasksLists(uxPriority[t])
              THEN AddTaskToReadyQueue(RemoveGeneric(store, t), t, Capped(p))
              ELSE UNCHANGED listVars
           /\ yieldPending' = (IF Capped(p) > uxPriority[t]
                               THEN t # c ELSE t = c)
  BY <1>1, <1>2, <1>4, RepriorityEffect DEF Base, StoreInv
<1>. QED BY <1>1, <1>3, <1>4

(* Where a task makes a step of its own, and is not at the end of a call,
   nothing has asked for a switch. *)
LEMMA NotNoted ==
  ASSUME Base, Dispatching, NEW t \in TCB, Runs(t), pc[t] \notin YieldAhead,
         uxSchedulerSuspended = 0
  PROVE  ~SwitchNoted
<1>1. /\ ~yieldPending /\ phase = "run" /\ pxCurrentTCB = t
  BY DEF Runs, InterruptsEnabled
<1>2. ~xMissedYield /\ ~yieldRequired
  BY <1>1 DEF Dispatching, HeldBack
<1>. QED BY <1>1, <1>2 DEF SwitchNoted

Dispatched == Dispatching /\ OwedButLowered

(* Steps within a take that leave the lists of the scheduler as they are. *)
LEMMA QuietDispatched ==
  ASSUME Base, Base', Dispatched, NEW t \in Task, Runs(t), NEW point,
         Goto(t, point), pc[t] \notin YieldAhead,
         store'.generic = store.generic,
         \A u \in TCB : store'.event[u] = xPendingReadyList
                          => store.event[u] = xPendingReadyList,
         TasksKept,
         UNCHANGED <<uxTopReadyPriority, uxPriority, pxCurrentTCB,
                     xSchedulerRunning, uxMissedTicks, xMissedYield,
                     yieldRequired, yieldPending, phase, lowered>>,
         \/ UNCHANGED uxSchedulerSuspended
         \/ uxSchedulerSuspended' > 0
  PROVE  Dispatched'
<1>1. /\ t \in TCB /\ t # Idle /\ Idle \in TCB /\ xSchedulerRunning
      /\ phase = "run"
  BY IdleAssumption DEF TCB, Runs, InterruptsEnabled
<1>2. pc'[Idle] = pc[Idle]
  BY <1>1 DEF Goto, Base, Typed
<1>3. Effect
  BY DEF Effect, Stayed
<1>4. HeldBack'
  BY <1>1 DEF Dispatched, Dispatching, HeldBack
<1>5. Dispatching'
  BY <1>1, <1>2, <1>3, <1>4, OwnDispatching DEF Dispatched
<1>6. SwitchOwed(FALSE) => SwitchOwed(FALSE)'
  BY <1>1, GotoOwed DEF Base
<1>. QED BY <1>5, <1>6 DEF Dispatched, OwedButLowered

LEMMA TakeStepsDispatched ==
  ASSUME Base, Base', Dispatched, NEW t \in Task,
         \/ \E m \in Event : MutexTake(t, m) \/ MutexLook(t, m)
         \/ MutexSuspend(t) \/ MutexLeave(t) \/ MutexPlace(t)
  PROVE  Dispatched'
<1>. USE DEF tickVars, listVars, delayVars, taskVars, suspendVars, loopVars,
             runVars, TasksKept
<1>1. ASSUME NEW m \in Event, MutexTake(t, m)
      PROVE  Dispatched'
  BY <1>1 DEF MutexTake, vars, Dispatched, Dispatching, HeldBack, Cached,
     IdleReady, Counted, InList, OwedButLowered, SwitchOwed, HighestRuns,
     SwitchNoted, historyVars
<1>2. ASSUME NEW m \in Event, MutexLook(t, m)
      PROVE  Dispatched'
  <2>1. Runs(t) /\ pc[t] \notin YieldAhead /\ Goto(t, "taken")
    BY <1>2 DEF MutexLook, MayBlock, RunsApp, RunsAt, YieldAhead
  <2>. QED BY <1>2, <2>1, QuietDispatched DEF MutexLook, historyVars
<1>3. CASE MutexSuspend(t)
  <2>1. Runs(t) /\ pc[t] \notin YieldAhead /\ Goto(t, "inherit")
    BY <1>3 DEF MutexSuspend, SuspendAll, RunsAt, YieldAhead
  <2>2. uxSchedulerSuspended' > 0
    BY <1>3 DEF MutexSuspend, SuspendAll, Base, Typed
  <2>. QED BY <1>3, <2>1, <2>2, QuietDispatched
           DEF MutexSuspend, SuspendAll, historyVars
<1>4. CASE MutexLeave(t)
  <2>1. Runs(t) /\ pc[t] \notin YieldAhead /\ Goto(t, "unlock")
    BY <1>4 DEF MutexLeave, RunsAt, YieldAhead
  <2>. QED BY <1>4, <2>1, QuietDispatched DEF MutexLeave, historyVars
<1>5. CASE MutexPlace(t)
  <2>1. /\ Runs(t) /\ pc[t] = "place" /\ pc[t] \notin YieldAhead /\ t \in TCB
        /\ Goto(t, "placeGeneric")
    BY <1>5 DEF MutexPlace, RunsAt, YieldAhead, TCB
  <2>2. taking[t] \in Event
    BY <2>1 DEF Base, MutexInv, TakersTake, TakePoints
  <2>3. store'.event = [store.event EXCEPT ![t] = EventList(taking[t])]
    BY <1>5, <2>1, <2>2, PlacedStore DEF MutexPlace, Base
  <2>4. \A u \in TCB : store'.event[u] = xPendingReadyList
                          => store.event[u] = xPendingReadyList
    BY <2>1, <2>2, <2>3, ListNames DEF Base, Typed, Stores
  <2>5. store'.generic = store.generic
    BY <1>5 DEF MutexPlace, InsertEvent
  <2>. QED BY <1>5, <2>1, <2>4, <2>5, QuietDispatched
           DEF MutexPlace, historyVars
<1>. QED BY <1>1, <1>2, <1>3, <1>4, <1>5

(* The holder is raised to the priority of the running task, no further. *)
LEMMA InheritDispatched ==
  ASSUME Base, Base', Dispatched, NEW t \in Task, MutexInherit(t)
  PROVE  Dispatched'
<1>. USE DEF tickVars, listVars, delayVars, taskVars, suspendVars, loopVars,
             runVars
<1>1. /\ Runs(t) /\ pc[t] = "inherit" /\ Goto(t, "place") /\ phase = "run"
      /\ t \in TCB /\ t # Idle /\ Idle \in TCB /\ xSchedulerRunning
      /\ pxCurrentTCB = t /\ ~yieldPending
      /\ UNCHANGED <<uxSchedulerSuspended, uxMissedTicks, xMissedYield, phase,
                     yieldRequired, yieldPending, pxCurrentTCB,
                     xSchedulerRunning, lowered>>
  BY IdleAssumption DEF MutexInherit, RunsAt, Runs, InterruptsEnabled, TCB,
                        historyVars
<1>2. PICK h \in Task :
           /\ \/ Reprioritised(h)
              \/ Stayed /\ store.generic[h] # pxReadyTasksLists(uxPriority[h])
              \/ Stayed /\ UNCHANGED uxPriority
           /\ uxPriority'[h] # uxPriority[h] =>
                h # t /\ uxPriority'[h] = uxPriority[t]
           /\ \A u \in TCB : u # h => uxPriority'[u] = uxPriority[u]
           /\ store'.event = store.event
  BY InheritedEffect
<1>3. h \in TCB
  BY DEF TCB
<1>4. Effect /\ Unheld
  BY <1>2, <1>3 DEF Effect, Unheld
<1>5. HeldBack'
  BY <1>1, <1>4, HeldBackKept DEF Dispatched, Dispatching
<1>6. pc' = [pc EXCEPT ![t] = "place"] /\ pc'[Idle] = pc[Idle]
      /\ pc'[t] = "place"
  BY <1>1 DEF Goto, Base, Typed
<1>7. Dispatching'
  BY <1>1, <1>4, <1>5, <1>6, OwnDispatching DEF Dispatched
<1>8. SwitchNoted => SwitchNoted'
  BY <1>1 DEF SwitchNoted, YieldAhead
<1>9. ASSUME HighestRuns(FALSE)
      PROVE  HighestRuns(FALSE)'
  <2>1. uxPriority'[t] = uxPriority[t]
    BY <1>1, <1>2
  <2>2. CASE Stayed
    BY <1>1, <1>9, <2>1, <2>2 DEF Stayed, HighestRuns
  <2>3. CASE Reprioritised(h) /\ h # t
    <3>1. /\ Relinked(h, pxReadyTasksLists(uxPriority'[h]))
          /\ store.generic[h] = pxReadyTasksLists(uxPriority[h])
          /\ uxPriority'[h] \in Priority /\ uxPriority[h] \in Priority
          /\ uxPriority[t] \in Priority
      BY <1>1, <1>3, <2>3 DEF Reprioritised, Base, Typed
    <3>2. uxPriority[h] <= uxPriority[t]
      BY <1>1, <1>3, <1>9, <3>1 DEF HighestRuns
    <3>3. uxPriority'[h] <= uxPriority[t]
      BY <1>2, <3>1, <3>2 DEF Priority
    <3>4. PICK l : l = pxReadyTasksLists(uxPriority'[h])
      OBVIOUS
    <3>5. \A p \in Priority : l = pxReadyTasksLists(p) => p <= uxPriority[t]
      BY <3>1, <3>3, <3>4, ListNames
    <3>6. Relinked(h, l)
      BY <3>1, <3>4
    <3>. QED BY <1>1, <1>9, <2>1, <2>3, <3>5, <3>6, HighestKept DEF Base
  <2>4. CASE Reprioritised(h) /\ h = t
    <3>1. uxPriority' = uxPriority
      BY <1>2, <2>4 DEF Base, Typed
    <3>2. Relinked(t, store.generic[t])
      BY <2>4, <3>1 DEF Reprioritised
    <3>3. \A u \in TCB : store'.generic[u] = store.generic[u]
      BY <3>2 DEF Relinked
    <3>. QED BY <1>1, <1>9, <3>1, <3>3 DEF HighestRuns
  <2>. QED BY <1>2, <2>2, <2>3, <2>4
<1>10. OwedButLowered'
  BY <1>1, <1>8, <1>9 DEF Dispatched, OwedButLowered, SwitchOwed
<1>. QED BY <1>7, <1>10 DEF Dispatched

LEMMA GiveDispatched ==
  ASSUME Base, Base', Dispatched, NEW t \in Task, NEW m \in Event,
         MutexGive(t, m)
  PROVE  Dispatched'
<1>. USE DEF tickVars, delayVars, suspendVars, runVars
<1>1. /\ Runs(t) /\ pc[t] = "app" /\ phase = "run" /\ phase' = "give"
      /\ t \in TCB /\ xSchedulerRunning /\ uxSchedulerSuspended = 0
      /\ UNCHANGED <<uxSchedulerSuspended, uxMissedTicks, xMissedYield, pc,
                     yieldRequired, yieldPending, pxCurrentTCB,
                     xSchedulerRunning>>
  BY DEF MutexGive, MayBlock, RunsApp, RunsAt, Runs, InterruptsEnabled, TCB
<1>2. /\ \/ Reprioritised(t) /\ lowered' = TRUE
         \/ Stayed /\ UNCHANGED <<uxPriority, lowered>>
      /\ store'.event = store.event
  BY GaveEffect
<1>3. Effect
  BY <1>1, <1>2 DEF Effect
<1>4. HeldBack'
  BY <1>1, <1>2 DEF Dispatched, Dispatching, HeldBack
<1>5. Dispatching'
  BY <1>1, <1>3, <1>4, OwnDispatching DEF Dispatched
<1>6. ~SwitchNoted
  BY <1>1, NotNoted DEF YieldAhead, Dispatched
<1>7. OwedButLowered'
  BY <1>1, <1>2, <1>6
     DEF Dispatched, OwedButLowered, SwitchOwed, HighestRuns, Stayed
<1>. QED BY <1>5, <1>7 DEF Dispatched

LEMMA GivenDispatched ==
  ASSUME Base, Base', Dispatched, MutexGiven
  PROVE  Dispatched'
<1>. USE DEF tickVars, listVars, delayVars, taskVars, suspendVars, runVars
<1>1. /\ phase = "give" /\ phase' = "run" /\ giving \in Event
      /\ xSchedulerRunning /\ ~yieldPending /\ uxSchedulerSuspended = 0
      /\ pxCurrentTCB \in TCB /\ pc[pxCurrentTCB] = "app"
      /\ UNCHANGED <<uxSchedulerSuspended, uxMissedTicks, xMissedYield, pc,
                     yieldRequired, pxCurrentTCB, xSchedulerRunning,
                     uxPriority, lowered>>
  BY DEF MutexGiven, Base, MutexInv, GivePhase, LockInv, MaskedUnsuspended,
         TCB, historyVars
<1>2. ~SwitchNoted
  BY <1>1 DEF SwitchNoted, YieldAhead, Dispatched, Dispatching, HeldBack
<1>3. CASE HasWaiter(giving)
  <2> DEFINE u == OwnerOfHead(store, EventList(giving))
  <2>1. /\ u \in TCB /\ Readied(u)
        /\ yieldPending' = (uxPriority[u] >= uxPriority[pxCurrentTCB])
        /\ Unheld
    BY <1>3, GivenEffect
  <2>. HIDE DEF u
  <2>2. Effect
    BY <2>1 DEF Effect
  <2>3. HeldBack'
    BY <1>1, <2>1 DEF Dispatched, Dispatching, HeldBack, Unheld
  <2>4. Dispatching'
    BY <1>1, <2>2, <2>3, OwnDispatching DEF Dispatched
  <2>5. SwitchOwed(FALSE) => SwitchOwed(FALSE)'
    <3>1. uxPriority[u] >= uxPriority[pxCurrentTCB] => SwitchNoted'
      BY <2>1 DEF SwitchNoted
    <3>. QED BY <1>1, <1>2, <2>1, <3>1, ReadiedOwed DEF Base
  <2>. QED BY <1>1, <2>4, <2>5 DEF Dispatched, OwedButLowered
<1>4. CASE ~HasWaiter(giving)
  <2>1. UNCHANGED <<store, uxTopReadyPriority, uxPriority, allocated,
                    uxCurrentNumberOfTasks, uxTasksDeleted>>
    BY <1>4 DEF MutexGiven
  <2>2. Effect
    BY <2>1 DEF Effect, Stayed, TasksKept
  <2>3. HeldBack'
    BY <1>1, <2>1 DEF Dispatched, Dispatching, HeldBack
  <2>4. Dispatching'
    BY <1>1, <2>2, <2>3, OwnDispatching DEF Dispatched
  <2>5. OwedButLowered'
    BY <1>1, <1>2, <2>1 DEF Dispatched, OwedButLowered, SwitchOwed, HighestRuns
  <2>. QED BY <2>4, <2>5 DEF Dispatched
<1>. QED BY <1>3, <1>4

LEMMA PrioritySetDispatched ==
  ASSUME Base, Base', Dispatched, NEW c \in Task, NEW t \in Task,
         NEW p \in RequestedPriority, MutexPrioritySet(c, t, p)
  PROVE  Dispatched'
<1>. USE DEF tickVars, delayVars, suspendVars, runVars, loopVars
<1>1. /\ Runs(c) /\ pc[c] = "app" /\ phase = "run" /\ ~yieldPending
      /\ c \in TCB /\ c # NULL /\ t \in TCB /\ xSchedulerRunning
      /\ uxSchedulerSuspended = 0 /\ pxCurrentTCB = c
      /\ UNCHANGED <<uxSchedulerSuspended, uxMissedTicks, xMissedYield, pc,
                     yieldRequired, phase, pxCurrentTCB, xSchedulerRunning,
                     lowered>>
  <2>1. Runs(c) /\ pc[c] = "app"
    BY DEF MutexPrioritySet, RunsApp, RunsAt
  <2>2. c # NULL /\ t \in TCB
    BY NullAssumption DEF TCB
  <2>. QED BY <2>1, <2>2, AtApp DEF MutexPrioritySet
<1>2. /\ \/ /\ \/ Reprioritised(t)
               \/ /\ Stayed
                  /\ store.generic[t] # pxReadyTasksLists(uxPriority[t])
            /\ uxPriority'[t] = Capped(p)
            /\ uxPriority[t] # Capped(p)
            /\ yieldPending' = (IF Capped(p) > uxPriority[t]
                                THEN t # c ELSE t = c)
            /\ \A u \in TCB : u # t => uxPriority'[u] = uxPriority[u]
         \/ Stayed /\ UNCHANGED uxPriority
      /\ store'.event = store.event
  BY SetEffect
<1>3. Effect /\ Unheld
  BY <1>1, <1>2 DEF Effect, Unheld
<1>4. HeldBack'
  BY <1>1, <1>3, HeldBackKept DEF Dispatched, Dispatching
<1>5. Dispatching'
  BY <1>1, <1>3, <1>4, OwnDispatching DEF Dispatched
<1>6. ASSUME SwitchOwed(FALSE)
      PROVE  SwitchOwed(FALSE)'
  <2>1. CASE Stayed /\ UNCHANGED uxPriority
    <3>1. ~SwitchNoted
      BY <1>1, NotNoted DEF YieldAhead, Dispatched
    <3>. QED BY <1>1, <1>6, <2>1, <3>1 DEF SwitchOwed, HighestRuns, Stayed
  <2>2. CASE ~(Stayed /\ UNCHANGED uxPriority)
    <3>1. Capped(p) \in Priority
      BY PrioritySetBase
    <3>. QED BY <1>1, <1>2, <1>6, <2>2, <3>1, RepriorityOwed DEF Base
  <2>. QED BY <2>1, <2>2
<1>7. OwedButLowered'
  BY <1>1, <1>6 DEF Dispatched, OwedButLowered
<1>. QED BY <1>5, <1>7 DEF Dispatched

LEMMA DispatchedStep ==
  ASSUME Base, Dispatched, [MutexNext]_mVars
  PROVE  Dispatched'
<1>1. Base'
  BY BaseStep
<1>2. CASE UNCHANGED mVars
  BY <1>2 DEF mVars, vars, tickVars, listVars, delayVars, taskVars, suspendVars,
     loopVars, runVars, historyVars, Dispatched, Dispatching, HeldBack, Cached,
     IdleReady, Counted, InList, OwedButLowered, SwitchOwed, HighestRuns,
     SwitchNoted
<1>3. CASE Kernels
  BY <1>3, KernelsDispatching, KernelsOwed DEF Dispatched
<1>. QED BY <1>1, <1>2, <1>3, MutexNextCases, TakeStepsDispatched,
            InheritDispatched, GiveDispatched, GivenDispatched,
            PrioritySetDispatched

LEMMA DispatchedInvariance == MutexSpec => []Dispatched
<1>1. MutexInit => Dispatched
  BY InitDispatch DEF MutexInit, DispatchInv, DispatchInvIf, Dispatched,
                      Dispatching, OwedButLowered, SwitchOwed, HighestRuns, Init
<1>2. Base /\ Dispatched /\ [MutexNext]_mVars => Dispatched'
  BY DispatchedStep
<1>. QED BY <1>1, <1>2, BaseInvariance, PTL DEF MutexSpec

(* Priority inheritance leaves the dispatcher right: whatever is lent, taken
   back and set, a task that makes a step is of the highest ready priority,
   but for a holder that fell back with nobody waiting, until the next switch
   (vTaskPriorityDisinherit asks for none). *)
THEOREM HighestRunsButLowered == MutexSpec => []SettledButLowered
<1>1. Base /\ Dispatched => SettledButLowered
  <2>1. CASE lowered
    BY <2>1 DEF SettledButLowered
  <2>2. ASSUME Base, Dispatched, ~lowered
        PROVE  DispatchSettled
    <3>1. DispatchInvIf(FALSE)
      BY <2>2 DEF Dispatched, Dispatching, OwedButLowered, DispatchInvIf,
                  FirstTop
    <3>. QED BY <2>2, <3>1, SettledHolds DEF Base
  <2>. QED BY <2>1, <2>2 DEF SettledButLowered
<1>. QED BY <1>1, BaseInvariance, DispatchedInvariance, PTL

(* Every task is in the list its state calls for, and linked into it once,
   also while mutexes raise and lower priorities: the holder that inherits is
   moved between the ready lists as a pair of list operations. *)
THEOREM PlacedWithMutexes == MutexSpec => []Placement
<1>1. Base => Placement
  BY DEF Base, StoreInv
<1> QED  BY <1>1, BaseInvariance, PTL

-----------------------------------------------------------------------------
(* No priority inversion, of one mutex. *)

(* Where a task that waits for a mutex can be, or has just waited. *)
WaitPoints ==
  {"placeGeneric", "placeInsert", "unlock", "resume", "app", "yield"}

(* Nobody waits for a mutex it holds. *)
OtherHolds == \A t \in Task : taking[t] # NULL => pxMutexHolder[taking[t]] # t

WaitersTake ==
  \A t \in TCB, m \in Event :
    Waits(t, m) => t \in Task /\ taking[t] = m /\ pc[t] \in WaitPoints

(* The mutex is not given between vTaskPriorityInherit and
   vTaskPlaceOnEventList. *)
PlacersWait ==
  \A t \in Task : pc[t] = "place" => pxMutexHolder[taking[t]] # NULL

(* While a holder that fell back to its base priority goes on, nobody else
   holds the mutex. *)
LoweredRuns ==
  lowered =>
    /\ xSchedulerRunning /\ pxCurrentTCB \in Task
    /\ \A m \in Event : pxMutexHolder[m] \in {NULL, pxCurrentTCB}
    /\ pc[pxCurrentTCB] \in {"app", "yield"}
    /\ phase \in {"run", "give", "tickWake"}

(* The values of the event items are those of the priorities in use. *)
ValuesUsed ==
  \A t \in TCB : eventValue[t] = configMAX_PRIORITIES - uxPriority[t]

Contends(t, m) ==
  \/ Waits(t, m)
  \/ t \in Task /\ pc[t] = "place" /\ taking[t] = m

HolderRaised ==
  \A m \in Event, t \in TCB :
    pxMutexHolder[m] # NULL /\ Contends(t, m) =>
      uxPriority[pxMutexHolder[m]] >= uxPriority[t]

Prevails(w, m) ==
  \A t \in TCB : Waits(t, m) => uxPriority[w] >= uxPriority[t]

(* The running task is in its own code, so that it may take a mutex. *)
AtLarge ==
  ~yieldPending /\ phase = "run" /\ pc[pxCurrentTCB] = "app"

(* A task that was readied to take m, before all that wait. *)
Successor(w, m) ==
  /\ taking[w] = m
  /\ pc[w] \in {"app", "yield"}
  /\ store.generic[w] \in ReadyLists
  /\ Prevails(w, m)
  /\ lowered /\ AtLarge => uxPriority[pxCurrentTCB] >= uxPriority[w]

(* A mutex that is free and waited for has a successor, who takes it unless a
   more urgent task comes first. *)
SuccessorReady ==
  \A m \in Event, t \in TCB :
    pxMutexHolder[m] = NULL /\ phase # "give" /\ Waits(t, m) =>
      \E w \in Task : Successor(w, m)

Undisturbed == ValuesUsed /\ EventsSorted /\ HolderRaised /\ SuccessorReady

TakeInv ==
  /\ OtherHolds /\ WaitersTake /\ PlacersWait /\ LoweredRuns
  /\ ~disturbed => Undisturbed
-----------------------------------------------------------------------------
(* What Kernel's steps do to those that wait, or have waited, for a mutex:
   nobody starts to wait, and nobody who is ready stops being ready, but for a
   task that is about to block or is suspended. *)
Loosened ==
  /\ \A u \in TCB :
        store'.event[u] \in {NULL, store.event[u], xPendingReadyList}
  /\ \A u \in TCB :
        store.generic[u] \in ReadyLists => store'.generic[u] \in ReadyLists

LEMMA ReadiedLoosens ==
  ASSUME Typed, NEW t \in TCB, Readied(t),
         \A u \in TCB :
           store'.event[u] \in {NULL, store.event[u], xPendingReadyList}
  PROVE  Loosened
<1>1. pxReadyTasksLists(uxPriority[t]) \in ReadyLists
  BY DEF Typed, ReadyLists
<1>. QED BY <1>1 DEF Loosened, Readied, Relinked

LEMMA SameLoosens ==
  ASSUME store' = store
  PROVE  Loosened
  BY DEF Loosened

LEMMA BootLoosens ==
  ASSUME Base, MutexBoot
  PROVE  Loosened
<1>1. PICK t \in TCB, p \in RequestedPriority : Create(t, p)
  BY MutexAssumption, PrioritiesAssumption
     DEF MutexBoot, CreateBeforeStart, StartScheduler, TCB, RequestedPriority
<1>2. Created(t) /\ store'.event = store.event
  BY <1>1, CreateEffect DEF Base, StoreInv, CurrentAllocated, FirstFound, Create
<1>3. Typed'
  BY BootPriorities
<1>4. pxReadyTasksLists(uxPriority'[t]) \in ReadyLists
  BY <1>3 DEF Typed, ReadyLists
<1>. QED BY <1>2, <1>4 DEF Loosened, Created, Relinked

LEMMA StepLoosens ==
  ASSUME Base, Dispatching, KernelStep, \A t \in TCB : ~PlaceUnlink(t)
  PROVE  Loosened
<1>. USE DEF Base
<1>1. ASSUME NEW t \in TCB,
             YieldWithinAPI(t) \/ ResumeAll(t) \/ PlaceInsert(t)
                \/ QueueUnlock(t)
      PROVE  Loosened
  <2>1. CASE YieldWithinAPI(t) \/ ResumeAll(t)
    <3>1. store' = store
      BY <2>1 DEF YieldWithinAPI, RequestSwitch, ResumeAll, listVars
    <3>. QED BY <3>1, SameLoosens
  <2>2. CASE PlaceInsert(t)
    <3>1. BetweenLists(t) /\ Runs(t) /\ t \in allocated
      BY <2>2, RunningTask DEF PlaceInsert, RunsAt, BetweenLists
    <3>2. store.generic[t] = NULL
      BY <3>1 DEF StoreInv, Placement
    <3>3. PICK l \in GenericLists :
             \/ \E value : store' = InsertGeneric(store, l, value, t)
             \/ store' = InsertEndGeneric(store, l, t)
      BY <2>2, ListNames DEF PlaceInsert, DelayListFor, Typed
    <3>4. /\ store'.generic = [store.generic EXCEPT ![t] = l]
          /\ store'.event = store.event
      BY <3>3 DEF InsertGeneric, InsertEndGeneric, Typed, Stores
    <3>5. NULL \notin ReadyLists
      BY ListNames, ListsDisjoint
    <3>. QED BY <3>2, <3>4, <3>5 DEF Loosened, Typed, Stores
  <2>3. CASE QueueUnlock(t)
    <3>1. PICK e \in Event :
             IF queueLock[e] = "posted" /\ HasWaiter(e)
             THEN RemoveFromEventList(e) ELSE UNCHANGED listVars
      BY <2>3 DEF QueueUnlock
    <3>2. CASE UNCHANGED listVars
      BY <3>2, SameLoosens DEF listVars
    <3>3. CASE RemoveFromEventList(e) /\ HasWaiter(e)
      <4>1. phase = "run" /\ UNCHANGED taskVars
        BY <2>3 DEF QueueUnlock, RunsAt, Runs, InterruptsEnabled
      <4>2. PICK u \in TCB :
               /\ u = OwnerOfHead(store, EventList(e))
               /\ IF uxSchedulerSuspended = 0 THEN Readied(u) ELSE Stayed
        BY <3>3, <4>1, SignalEffect
      <4>3. \A v \in TCB :
               store'.event[v] \in {NULL, store.event[v], xPendingReadyList}
        BY <3>3, <4>1, EventRemovalStore DEF Typed, Stores
      <4>4. CASE Readied(u)
        BY <4>3, <4>4, ReadiedLoosens
      <4>5. CASE Stayed
        BY <4>3, <4>5 DEF Stayed, Loosened
      <4>. QED BY <4>2, <4>4, <4>5
    <3>. QED BY <3>1, <3>2, <3>3
  <2>. QED BY <1>1, <2>1, <2>2, <2>3
<1>2. ASSUME NEW c \in Task, NEW t \in Task, ResumeTask(c, t)
      PROVE  Loosened
  <2>1. /\ t \in allocated /\ IsTaskSuspended(t) /\ UNCHANGED taskVars
        /\ AddTaskToReadyQueue(RemoveGeneric(store, t), t, uxPriority[t])
    BY <1>2 DEF ResumeTask, Live
  <2>2. t \in TCB /\ Readied(t) /\ store'.event = store.event
    BY <2>1, ResumeEffect DEF StoreInv
  <2>. QED BY <2>2, ReadiedLoosens
<1>3. CASE IdleStep
  <2>1. CASE IdleReap
    <3>1. PICK t : t = OwnerOfHead(store, xTasksWaitingTermination)
      OBVIOUS
    <3>2. Reaped(t) /\ store'.event = store.event
      BY <2>1, <3>1, ReapEffect
    <3>3. xTasksWaitingTermination \notin ReadyLists
      BY ListNames, ListsDisjoint
    <3>. QED BY <3>2, <3>3 DEF Reaped, Relinked, Loosened
  <2>2. CASE ~IdleReap
    <3>1. store' = store
      BY <1>3, <2>2 DEF IdleStep, IdleSuspend, SuspendAll, IdleReadList,
                        IdleLoop, listVars
    <3>. QED BY <3>1, SameLoosens
  <2>. QED BY <2>1, <2>2
<1>4. CASE MaskedStep
  <2>1. CASE DrainPending \/ WakeHead
    <3>1. PICK t : /\ Readied(t)
                   /\ \A u \in TCB : store'.event[u] \in {NULL, store.event[u]}
      BY <2>1, DrainEffect, WakeEffect
    <3>. QED BY <3>1, ReadiedLoosens DEF Readied, Relinked
  <2>2. CASE ~(DrainPending \/ WakeHead)
    <3>1. store' = store
      BY <1>4, <2>2 DEF MaskedStep, DrainDone, ReplayTick, ReplayTickDone,
                        ResumeAllDone, TickInterruptDone, listVars
    <3>. QED BY <3>1, SameLoosens
  <2>. QED BY <2>1, <2>2
<1>5. CASE TickISR
  <2>1. store' = store
    BY <1>5 DEF TickISR, TickInterrupt, TickInterruptMissed, listVars
  <2>. QED BY <2>1, SameLoosens
<1>. QED BY <1>1, <1>2, <1>3, <1>4, <1>5 DEF KernelStep

LEMMA SwitchLoosens ==
  ASSUME Base, Dispatching, MutexSwitch
  PROVE  Loosened
<1>1. CASE SwitchContext
  BY <1>1, SwitchEffect DEF Base, Dispatching, Searched, Loosened
<1>2. CASE SwitchMissed
  BY <1>2, SameLoosens DEF SwitchMissed, listVars
<1>. QED BY <1>1, <1>2 DEF MutexSwitch, Switch

(* A task that is suspended is the only one that leaves the ready lists. *)
LEMMA SuspendLoosens ==
  ASSUME Base, NEW c \in Task, NEW t \in Task, MutexSuspendTask(c, t)
  PROVE  /\ \A u \in TCB : store'.event[u] \in {NULL, store.event[u]}
         /\ \A u \in TCB : u # t => store'.generic[u] = store.generic[u]
<1>. USE DEF Base
<1>1. /\ t \in Live /\ c \in TCB /\ Runs(c) /\ pc[c] = "app"
      /\ store' = InsertEndGeneric(
                    RemoveEventIfLinked(RemoveGeneric(store, t), t),
                    xSuspendedTaskList, t)
  BY DEF MutexSuspendTask, SuspendTask, RunsApp, RunsAt, TCB
<1>2. ~BetweenLists(t) /\ t \in TCB
  BY <1>1, RunningTask DEF BetweenLists, TCB
<1>3. /\ Relinked(t, xSuspendedTaskList)
      /\ \A u \in TCB : store'.event[u] # NULL =>
            store'.event[u] = store.event[u]
  BY <1>1, <1>2, MoveEffect, ListNames DEF StoreInv
<1>. QED BY <1>3 DEF Relinked

LEMMA KernelsLoosen ==
  ASSUME Base, Dispatching, Kernels
  PROVE  /\ \A u \in TCB :
              store'.event[u] \in {NULL, store.event[u], xPendingReadyList}
         /\ \A u \in TCB : store.generic[u] \in ReadyLists =>
              \/ store'.generic[u] \in ReadyLists
              \/ pc[u] = "placeGeneric"
              \/ \E c \in Task : u \in Task /\ MutexSuspendTask(c, u)
<1>. USE DEF Loosened
<1>1. CASE MutexBoot
  BY <1>1, BootLoosens
<1>2. CASE MutexSwitch
  BY <1>2, SwitchLoosens
<1>3. ASSUME NEW c \in Task, NEW t \in Task, MutexSuspendTask(c, t)
      PROVE  /\ \A u \in TCB : store'.event[u] \in {NULL, store.event[u]}
             /\ \A u \in TCB : u # t => store'.generic[u] = store.generic[u]
  BY <1>3, SuspendLoosens
<1>4. CASE \E c, t \in Task : MutexSuspendTask(c, t)
  <2>1. PICK c \in Task, t \in Task : MutexSuspendTask(c, t)
    BY <1>4
  <2>. QED BY <1>3, <2>1
<1>5. ASSUME NEW t \in TCB, PlaceUnlink(t)
      PROVE  /\ \A u \in TCB : store'.event[u] = store.event[u]
             /\ \A u \in TCB : u # t => store'.generic[u] = store.generic[u]
             /\ pc[t] = "placeGeneric"
  BY <1>5 DEF PlaceUnlink, RunsAt, RemoveGeneric, Base, Typed, Stores
<1>6. CASE \E t \in TCB : PlaceUnlink(t)
  BY <1>5, <1>6
<1>7. CASE KernelStep /\ \A t \in TCB : ~PlaceUnlink(t)
  BY <1>7, StepLoosens
<1>. QED BY <1>1, <1>2, <1>4, <1>6, <1>7 DEF Kernels
-----------------------------------------------------------------------------
(* What Kernel's steps do to TakeInv. *)

LEMMA NoContenders ==
  ASSUME Base, ~xSchedulerRunning, NEW u \in TCB, NEW m \in Event
  PROVE  ~Contends(u, m)
<1>. USE DEF Base
<1>1. pc[u] = "app"
  BY DEF LockInv, QuietBeforeStart
<1>2. store.event[u] # EventList(m)
  <2>. SUFFICES ASSUME store.event[u] = EventList(m) PROVE FALSE
    OBVIOUS
  <2>1. store.event[u] # NULL
    BY ListNames, ListsDisjoint
  <2>2. u \in allocated /\ Blocked(u)
    BY <1>1, <2>1, LinkedAllocated DEF StoreInv, EventPlacement
  <2>3. store.generic[u] \in ReadyLists
    BY <2>2 DEF StoreInv, ReadyBeforeStart
  <2>. QED BY <2>2, <2>3, ListNames, ListsDisjoint DEF Blocked, Delayed
<1>. QED BY <1>1, <1>2 DEF Contends, Waits

LEMMA KernelsKeepPoints ==
  ASSUME Base, Kernels, NEW u \in Task
  PROVE  /\ pc[u] \in {"app", "yield"} => pc'[u] \in {"app", "yield"}
         /\ pc[u] \in WaitPoints => pc'[u] \in WaitPoints
         /\ pc'[u] = "place" => pc[u] = "place"
<1>. USE DEF Base, WaitPoints, tickVars, listVars, delayVars, taskVars,
             suspendVars, loopVars, runVars
<1>0. u \in TCB /\ u # Idle /\ pc \in [TCB -> CallPoints]
  BY IdleAssumption DEF TCB, Typed
<1>1. pc'[u] = "place" => pc[u] = "place"
  BY <1>0, KernelsMove DEF KernelMoves, TakePoints
<1>2. ASSUME pc'[u] # pc[u]
      PROVE  \/ pc[u] \in {"app", "yield"} /\ pc'[u] \in {"app", "yield"}
             \/ pc[u] \notin {"app", "yield"} /\ pc'[u] \in WaitPoints
             \/ pc[u] \notin WaitPoints
  <2>1. CASE MutexBoot
    BY <1>0, <1>2, <2>1
       DEF MutexBoot, CreateBeforeStart, StartScheduler, Create
  <2>2. CASE \E c, t \in Task : MutexSuspendTask(c, t)
    <3>1. PICK c \in Task : pc[c] = "app" /\ \/ Goto(c, "yield")
                                             \/ Goto(c, "app")
      BY <2>2 DEF MutexSuspendTask, SuspendTask, RunsApp, RunsAt
    <3>. QED BY <1>0, <1>2, <3>1 DEF Goto
  <2>3. CASE MutexSwitch
    BY <1>2, <2>3 DEF MutexSwitch, Switch, SwitchContext, SwitchMissed
  <2>4. CASE KernelStep
    <3>1. ASSUME NEW t \in TCB,
                 YieldWithinAPI(t) \/ PlaceUnlink(t) \/ PlaceInsert(t)
                   \/ QueueUnlock(t)
          PROVE  \/ pc[t] = "yield" /\ Goto(t, "app")
                 \/ pc[t] = "placeGeneric" /\ Goto(t, "placeInsert")
                 \/ pc[t] = "placeInsert" /\ Goto(t, "unlock")
                 \/ pc[t] = "unlock" /\ Goto(t, "resume")
      BY <3>1 DEF YieldWithinAPI, RequestSwitch, PlaceUnlink, PlaceInsert,
                  QueueUnlock, RunsAt
    <3>2. CASE \E t \in TCB : YieldWithinAPI(t) \/ PlaceUnlink(t)
                                \/ PlaceInsert(t) \/ QueueUnlock(t)
      BY <1>0, <1>2, <3>1, <3>2 DEF Goto
    <3>3. CASE (\E t \in TCB : ResumeAll(t)) \/ ResumeAllDone
      <4>1. PICK t \in TCB, yields \in BOOLEAN :
               /\ pc[t] \in {"app", "resume", "reapEmpty", "reapFull"}
               /\ \/ pc' = pc
                  \/ Goto(t, AfterResumeAll(pc[t], yields))
        <5>1. ASSUME NEW t \in TCB, ResumeAll(t)
              PROVE  /\ pc[t] \in {"app", "resume", "reapEmpty", "reapFull"}
                     /\ \/ pc' = pc
                        \/ Goto(t, AfterResumeAll(pc[t], FALSE))
          BY <5>1 DEF ResumeAll, RunsApp, RunsAt
        <5>2. CASE ResumeAllDone
          <6>1. /\ pxCurrentTCB \in TCB
                /\ pc[pxCurrentTCB] \in {"app", "resume", "reapEmpty",
                                         "reapFull"}
            BY <5>2 DEF ResumeAllDone, LockInv, QuietBeforeStart, StoreInv,
                        LoopCaller
          <6>2. PICK yields \in BOOLEAN :
                  Goto(pxCurrentTCB, AfterResumeAll(pc[pxCurrentTCB], yields))
            BY <5>2 DEF ResumeAllDone, Typed
          <6>. QED BY <6>1, <6>2
        <5>. QED BY <3>3, <5>1, <5>2
      <4>2. u = t /\ pc'[u] = AfterResumeAll(pc[u], yields)
        BY <1>0, <1>2, <4>1, AfterResumeAllType DEF Goto
      <4>3. /\ pc[u] = "resume" => pc'[u] \in {"app", "yield"}
            /\ pc[u] = "app" => pc'[u] = "app"
        BY <4>2 DEF AfterResumeAll
      <4>. QED BY <4>1, <4>2, <4>3
    <3>4. CASE (\E c, t \in Task : ResumeTask(c, t)) \/ TickISR
      BY <1>2, <3>4 DEF ResumeTask, TickISR, TickInterrupt, TickInterruptMissed
    <3>5. CASE IdleStep
      <4>1. PICK point : Goto(Idle, point)
        BY <3>5 DEF IdleStep, IdleSuspend, SuspendAll, IdleReadList, IdleReap,
                    Reap,
                    IdleLoop
      <4>. QED BY <1>0, <1>2, <4>1 DEF Goto
    <3>6. CASE MaskedStep /\ ~ResumeAllDone
      BY <1>2, <3>6 DEF MaskedStep, DrainPending, DrainDone, ReplayTick,
                        ReplayTickDone, WakeHead, TickInterruptDone
    <3>. QED BY <2>4, <3>2, <3>3, <3>4, <3>5, <3>6 DEF KernelStep
  <2>. QED BY <2>1, <2>2, <2>3, <2>4 DEF Kernels
<1>. QED BY <1>1, <1>2

LEMMA KernelsLowered ==
  ASSUME Base, LoweredRuns, Kernels
  PROVE  /\ LoweredRuns'
         /\ lowered' => /\ lowered /\ UNCHANGED pxCurrentTCB
                        /\ AtLarge' => AtLarge
<1>. USE DEF Base, tickVars, listVars, delayVars, taskVars, suspendVars,
             loopVars, runVars, AtLarge
<1>1. ASSUME lowered, lowered'
      PROVE  /\ xSchedulerRunning' /\ UNCHANGED pxCurrentTCB
             /\ pc'[pxCurrentTCB] \in {"app", "yield"}
             /\ phase' \in {"run", "give", "tickWake"}
             /\ AtLarge' => AtLarge
  <2>1. /\ xSchedulerRunning /\ pxCurrentTCB \in Task
        /\ pxCurrentTCB \in TCB /\ pxCurrentTCB # Idle
        /\ pc[pxCurrentTCB] \in {"app", "yield"}
        /\ phase \in {"run", "give", "tickWake"}
        /\ phase = "run" => uxSchedulerSuspended = 0
        /\ pc \in [TCB -> CallPoints]
        /\ pxCurrentTCB # Idle
    <3>1. /\ xSchedulerRunning /\ pxCurrentTCB \in Task
          /\ pc[pxCurrentTCB] \in {"app", "yield"}
          /\ phase \in {"run", "give", "tickWake"}
      BY <1>1 DEF LoweredRuns
    <3>2. phase = "run" => ~(uxSchedulerSuspended > 0)
      BY <3>1 DEF MutexInv, SuspendedInside, Windows
    <3>3. phase = "run" => uxSchedulerSuspended = 0
      BY <3>2 DEF Typed
    <3>. QED BY <3>1, <3>3, IdleAssumption DEF Typed, TCB
  <2>2. CASE MutexBoot
    BY <2>1, <2>2 DEF MutexBoot, CreateBeforeStart, StartScheduler
  <2>3. CASE \E c, t \in Task : MutexSuspendTask(c, t)
    <3>1. PICK c \in Task, t \in Task : MutexSuspendTask(c, t)
      BY <2>3
    <3>. QED BY <2>1, <3>1 DEF MutexSuspendTask, SuspendTask, RunsApp, RunsAt,
                               Runs, Goto
  <2>4. CASE MutexSwitch
    <3>1. phase = "run"
      BY <2>4 DEF MutexSwitch, Switch, SwitchContext, SwitchAllowed,
                  SwitchMissed, InterruptsEnabled
    <3>2. ~(uxSchedulerSuspended > 0)
      BY <2>1, <3>1
    <3>3. lowered' => uxSchedulerSuspended > 0
      BY <2>4, Zenon DEF MutexSwitch
    <3>. QED BY <1>1, <3>2, <3>3, Zenon
  <2>5. CASE KernelStep
    <3>1. ASSUME NEW t \in TCB, YieldWithinAPI(t)
          PROVE  /\ xSchedulerRunning' /\ UNCHANGED <<pxCurrentTCB, phase>>
                 /\ pc'[pxCurrentTCB] = "app" /\ yieldPending'
      BY <2>1, <3>1 DEF YieldWithinAPI, RequestSwitch, RunsAt, Runs, Goto
    <3>2. ASSUME NEW t \in TCB,
                 PlaceUnlink(t) \/ PlaceInsert(t) \/ QueueUnlock(t)
                   \/ ResumeAll(t)
          PROVE  FALSE
      <4>1. Runs(t) /\ (pc[t] \in {"app", "yield"} => uxSchedulerSuspended > 0)
        BY <3>2 DEF PlaceUnlink, PlaceInsert, QueueUnlock, ResumeAll, RunsAt
      <4>2. t = pxCurrentTCB /\ phase = "run"
        BY <4>1 DEF Runs, InterruptsEnabled
      <4>. QED BY <2>1, <4>1, <4>2
    <3>3. ASSUME NEW c \in Task, NEW t \in Task, ResumeTask(c, t)
          PROVE  /\ UNCHANGED <<xSchedulerRunning, pxCurrentTCB, phase, pc>>
                 /\ ~yieldPending
      BY <3>3 DEF ResumeTask, RunsApp, RunsAt, Runs
    <3>4. ~IdleStep
      BY <2>1 DEF IdleStep, IdleSuspend, IdleReadList, IdleReap, Reap, IdleLoop,
                  RunsAt, Runs
    <3>5. CASE MaskedStep
      BY <2>1, <3>5 DEF MaskedStep, DrainPending, DrainDone, ReplayTick,
              ReplayTickDone, ResumeAllDone, WakeHead, TickInterruptDone
    <3>6. CASE TickISR
      BY <2>1, <3>6 DEF TickISR, TickInterrupt, TickInterruptMissed,
                        InterruptsEnabled
    <3>. QED BY <2>1, <2>5, <3>1, <3>2, <3>3, <3>4, <3>5, <3>6 DEF KernelStep
  <2>. QED BY <2>2, <2>3, <2>4, <2>5, Zenon DEF Kernels
<1>2. lowered' => lowered
  BY DEF Kernels, MutexBoot, MutexSuspendTask, MutexSwitch, historyVars,
         MutexInv, MutexTyped
<1>3. pxMutexHolder' = pxMutexHolder
  BY KernelsLeave DEF mutexVars
<1>. QED BY <1>1, <1>2, <1>3 DEF LoweredRuns
-----------------------------------------------------------------------------
LEMMA KernelsTake ==
  ASSUME Base, Dispatching, TakeInv, Kernels
  PROVE  TakeInv'
<1>. USE DEF Base, TakeInv
<1>1. Typed' /\ StoreInv'
  BY KernelsKept
<1>2. UNCHANGED <<pxMutexHolder, taking>>
  BY KernelsLeave DEF mutexVars
<1>3. /\ phase # "give"
      /\ \A t \in TCB : pc'[t] = "place" => pc[t] = "place"
      /\ \A t \in TCB : pc[t] = "place" => pc'[t] = "place"
  BY KernelsMove DEF KernelMoves, TakePoints
<1>4. ASSUME NEW u \in TCB, NEW m \in Event, Waits(u, m)'
      PROVE  Waits(u, m)
  <2>1. store'.event[u] \in {NULL, store.event[u], xPendingReadyList}
    BY KernelsLoosen
  <2>2. EventList(m) # NULL /\ EventList(m) # xPendingReadyList
    BY ListNames, ListsDisjoint
  <2>. QED BY <1>4, <2>1, <2>2 DEF Waits
<1>5. ASSUME NEW u \in TCB, NEW m \in Event, Contends(u, m)'
      PROVE  Contends(u, m)
  BY <1>2, <1>3, <1>4, <1>5 DEF Contends
<1>6. OtherHolds'
  BY <1>2 DEF OtherHolds
<1>7. WaitersTake'
  BY <1>2, <1>4, KernelsKeepPoints DEF WaitersTake
<1>8. PlacersWait'
  BY <1>2, <1>3 DEF PlacersWait, TCB
<1>9. LoweredRuns'
  BY KernelsLowered
<1>10. ASSUME ~disturbed'
       PROVE  Undisturbed'
  <2>1. ~disturbed
    BY <1>10 DEF Kernels, MutexBoot, MutexSuspendTask, MutexSwitch,
                 historyVars, MutexInv, MutexTyped
  <2>2. Undisturbed
    BY <2>1
  <2>3. ASSUME NEW u \in TCB, NEW m \in Event, Contends(u, m)
        PROVE  xSchedulerRunning /\ UNCHANGED uxPriority
    <3>1. xSchedulerRunning
      BY <2>3, NoContenders
    <3>. QED BY <3>1, KernelsLeave, BootPriorities
  <2>4. ValuesUsed'
    <3>1. CASE MutexBoot
      <4>1. PICK t \in TCB :
               /\ \A u \in TCB : u # t => uxPriority'[u] = uxPriority[u]
               /\ eventValue' = [eventValue EXCEPT
                                   ![t] = configMAX_PRIORITIES - uxPriority'[t]]
        BY <3>1, BootPriorities DEF InitialisePriorities
      <4>. QED BY <2>2, <4>1 DEF Undisturbed, ValuesUsed, MutexInv, MutexTyped
    <3>2. CASE UNCHANGED <<uxPriority, eventValue>>
      BY <2>2, <3>2 DEF Undisturbed, ValuesUsed
    <3>. QED BY <3>1, <3>2, KernelsLeave
  <2>5. EventsSorted'
    <3>. SUFFICES ASSUME NEW e \in Event
                  PROVE  Ordered(store'.ring[EventList(e)], EventItemValue')
      BY DEF EventsSorted
    <3>1. \A t \in TCB : ~PlaceEventItem(t)
      BY <1>3 DEF PlaceEventItem, RunsAt, Goto, Typed
    <3>2. Ordered(store'.ring[EventList(e)], EventItemValue)
      BY <2>2, <3>1, EventOrderStep, KernelsNext
         DEF Undisturbed, EventsSorted, EventsKeepOrder, Dispatching
    <3>3. /\ EventList(e) \in EventLists /\ EventList(e) \in Lists
      BY ListNames, ListsDisjoint
    <3>4. store'.ring[EventList(e)] \in Seq(TCB)
      BY <1>1, <3>3 DEF Typed, Stores
    <3>5. ASSUME NEW t \in TCB, Contains(store'.ring[EventList(e)], t)
          PROVE  EventItemValue'[t] = EventItemValue[t]
      <4>1. Waits(t, e)'
        BY <1>1, <3>3, <3>5 DEF StoreInv, StoreConsistent, StoreOK, Waits
      <4>2. uxPriority' = uxPriority
        BY <1>4, <2>3, <4>1 DEF Contends
      <4>. QED BY <4>2 DEF EventItemValue
    <3>6. PICK other : other = EventItemValue'
      OBVIOUS
    <3>7. Ordered(store'.ring[EventList(e)], other)
      BY <3>2, <3>4, <3>5, <3>6, OrderedSame
    <3>. QED BY <3>6, <3>7
  <2>6. HolderRaised'
    BY <1>2, <1>5, <2>2, <2>3 DEF Undisturbed, HolderRaised
  <2>7. SuccessorReady'
    <3>. SUFFICES ASSUME NEW m \in Event, NEW u \in TCB,
                         pxMutexHolder'[m] = NULL, Waits(u, m)'
                  PROVE  \E w \in Task : Successor(w, m)'
      BY DEF SuccessorReady
    <3>1. Waits(u, m) /\ UNCHANGED uxPriority
      BY <1>4, <2>3 DEF Contends
    <3>2. PICK w \in Task : Successor(w, m)
      BY <1>2, <1>3, <2>2, <3>1 DEF Undisturbed, SuccessorReady
    <3>3. /\ taking'[w] = m /\ pc'[w] \in {"app", "yield"} /\ w \in TCB
          /\ pc[w] # "placeGeneric"
      BY <1>2, <3>2, KernelsKeepPoints DEF Successor, TCB
    <3>4. \A c \in Task : ~MutexSuspendTask(c, w)
      BY <1>2, <1>10, <3>2, NullAssumption
         DEF MutexSuspendTask, Successor
    <3>5. store'.generic[w] \in ReadyLists
      BY <3>2, <3>3, <3>4, KernelsLoosen DEF Successor
    <3>6. Prevails(w, m)'
      BY <1>4, <3>1, <3>2 DEF Successor, Prevails
    <3>7. lowered' /\ AtLarge' => uxPriority'[pxCurrentTCB'] >= uxPriority'[w]
      BY <3>1, <3>2, KernelsLowered DEF Successor
    <3>8. Successor(w, m)'
      BY <3>3, <3>5, <3>6, <3>7 DEF Successor
    <3>. QED BY <3>8
  <2>. QED BY <2>4, <2>5, <2>6, <2>7 DEF Undisturbed
<1>. QED BY <1>6, <1>7, <1>8, <1>9, <1>10
-----------------------------------------------------------------------------
(* What the mutex's own steps do to TakeInv, when there is one mutex. *)
Sole == \A m, n \in Event : m = n

(* A task that runs is in no event list, unless it is about to block. *)
LEMMA RunnerWaitsNot ==
  ASSUME Base, NEW t \in TCB, Runs(t),
         pc[t] \in {"app", "taken", "inherit", "place"}, NEW m \in Event
  PROVE  ~Waits(t, m)
<1>. USE DEF Base
<1>1. store.generic[t] \in ReadyLists
  BY RunningTask
<1>2. EventList(m) # NULL
  BY ListNames, ListsDisjoint
<1>3. ~Blocked(t)
  BY <1>1, ListNames DEF Blocked, Delayed
<1>. QED BY <1>2, <1>3 DEF Waits, StoreInv, EventPlacement

(* A task that is ready is in the ready list of its priority. *)
LEMMA ReadyInItsList ==
  ASSUME Base, NEW t \in TCB, store.generic[t] \in ReadyLists
  PROVE  store.generic[t] = pxReadyTasksLists(uxPriority[t])
BY ListNames, ListsDisjoint DEF Base, StoreInv, Placement

(* The order of the event lists survives a step that keeps the rings in order,
   and the priorities of those that still wait. *)
LEMMA SortedWhileKept ==
  ASSUME Typed', StoreInv', EventsSorted, KeepsOrder(store, store'),
         \A u \in TCB, m \in Event :
           Waits(u, m)' => uxPriority'[u] = uxPriority[u]
  PROVE  EventsSorted'
<1>. SUFFICES ASSUME NEW e \in Event
              PROVE  Ordered(store'.ring[EventList(e)], EventItemValue')
  BY DEF EventsSorted
<1>1. Ordered(store'.ring[EventList(e)], EventItemValue)
  BY DEF EventsSorted, KeepsOrder, SortedLists
<1>2. /\ EventList(e) \in EventLists /\ EventList(e) \in Lists
  BY ListNames, ListsDisjoint
<1>3. store'.ring[EventList(e)] \in Seq(TCB)
  BY <1>2 DEF Typed, Stores
<1>4. ASSUME NEW t \in TCB, Contains(store'.ring[EventList(e)], t)
      PROVE  EventItemValue'[t] = EventItemValue[t]
  <2>1. Waits(t, e)'
    BY <1>2, <1>4 DEF StoreInv, StoreConsistent, StoreOK, Waits
  <2>. QED BY <2>1 DEF EventItemValue
<1>5. PICK other : other = EventItemValue'
  OBVIOUS
<1>6. Ordered(store'.ring[EventList(e)], other)
  BY <1>1, <1>3, <1>4, <1>5, OrderedSame
<1>. QED BY <1>5, <1>6

LEMMA SameOrder ==
  ASSUME UNCHANGED listVars
  PROVE  KeepsOrder(store, store')
  BY SameRingsKeepOrder DEF listVars

LEMMA MovedOrder ==
  ASSUME Typed, NEW t \in TCB, NEW p \in Priority,
         AddTaskToReadyQueue(RemoveGeneric(store, t), t, p)
  PROVE  KeepsOrder(store, store')
<1>1. pxReadyTasksLists(p) \in GenericLists \ DelayLists
  BY ListNames
<1>. QED BY <1>1, MoveKeepsOrder DEF AddTaskToReadyQueue, Typed

(* The mutex is taken: by its successor, or by a task at least as urgent. *)
LEMMA TakeTakes ==
  ASSUME Sole, Base, Dispatched, TakeInv, NEW t \in Task, NEW m \in Event,
         MutexTake(t, m)
  PROVE  TakeInv'
<1>. USE DEF Base, TakeInv
<1>1. /\ Runs(t) /\ pc[t] = "app" /\ pxMutexHolder[m] = NULL
      /\ pxMutexHolder' = [pxMutexHolder EXCEPT ![m] = t]
      /\ taking' = [taking EXCEPT ![t] = NULL]
      /\ UNCHANGED <<vars, eventValue, disturbed, lowered>>
      /\ uxSchedulerSuspended = 0
  BY DEF MutexTake, MayBlock, RunsApp, RunsAt, historyVars
<1>2. /\ UNCHANGED <<store, uxPriority, pc, phase, yieldPending, pxCurrentTCB,
                     xSchedulerRunning>>
  BY <1>1 DEF vars, listVars, taskVars, runVars, loopVars
<1>3. /\ t \in TCB /\ t # NULL /\ phase = "run" /\ ~yieldPending
      /\ pxCurrentTCB = t
  BY <1>1, AtApp, NullAssumption
<1>4. \A n \in Event : pxMutexHolder'[n] = t
  BY <1>1 DEF Sole, MutexInv, MutexTyped
<1>5. /\ taking'[t] = NULL
      /\ \A u \in Task : u # t => taking'[u] = taking[u]
  BY <1>1 DEF MutexInv, MutexTyped
<1>6. \A n \in Event : ~Waits(t, n)
  BY <1>1, <1>3, RunnerWaitsNot
<1>7. OtherHolds'
  BY <1>4, <1>5 DEF OtherHolds, MutexInv, MutexTyped
<1>8. WaitersTake'
  BY <1>2, <1>5, <1>6 DEF WaitersTake, Waits
<1>9. \A u \in Task : pc[u] # "place"
  <2>. SUFFICES ASSUME NEW u \in Task, pc[u] = "place" PROVE FALSE
    OBVIOUS
  <2>1. taking[u] \in Event
    BY DEF MutexInv, TakersTake, TakePoints, TCB
  <2>2. pxMutexHolder[taking[u]] # NULL
    BY DEF PlacersWait
  <2>. QED BY <1>1, <2>1, <2>2 DEF Sole
<1>10. PlacersWait'
  BY <1>2, <1>9 DEF PlacersWait
<1>11. LoweredRuns'
  BY <1>1, <1>2, <1>3, <1>4 DEF LoweredRuns
<1>12. ASSUME ~disturbed'
       PROVE  Undisturbed'
  <2>1. Undisturbed
    BY <1>1, <1>12
  <2>2. ValuesUsed' /\ EventsSorted'
    BY <1>1, <1>2, <2>1 DEF Undisturbed, ValuesUsed, EventsSorted,
                            EventItemValue
  <2>3. ASSUME NEW n \in Event, NEW u \in TCB, Contends(u, n)'
        PROVE  uxPriority[t] >= uxPriority[u]
    <3>1. Waits(u, m)
      BY <1>2, <1>9, <2>3 DEF Contends, Waits, Sole
    <3>2. PICK w \in Task : Successor(w, m)
      BY <1>1, <1>3, <2>1, <3>1 DEF Undisturbed, SuccessorReady
    <3>3. w \in TCB /\ uxPriority[w] >= uxPriority[u]
      BY <3>1, <3>2 DEF Successor, Prevails, TCB
    <3>4. uxPriority[t] >= uxPriority[w]
      <4>1. CASE lowered
        BY <1>1, <1>3, <3>2, <4>1 DEF Successor, AtLarge
      <4>2. CASE ~lowered
        <5>1. ~SwitchNoted
          BY <1>1, <1>3, NotNoted DEF Dispatched, YieldAhead
        <5>2. HighestRuns(FALSE)
          BY <1>3, <4>2, <5>1 DEF Dispatched, OwedButLowered, SwitchOwed
        <5>3. store.generic[w] = pxReadyTasksLists(uxPriority[w])
          BY <3>2, <3>3, ReadyInItsList DEF Successor
        <5>4. uxPriority[w] \in Priority /\ uxPriority[t] \in Priority
          BY <1>3, <3>3 DEF Typed
        <5>5. uxPriority[w] <= uxPriority[t]
          BY <1>3, <3>3, <5>2, <5>3, <5>4 DEF HighestRuns
        <5>. QED BY <5>4, <5>5 DEF Priority
      <4>. QED BY <4>1, <4>2
    <3>5. /\ uxPriority[w] \in Int /\ uxPriority[t] \in Int
          /\ uxPriority[u] \in Int
      BY <1>3, <3>3 DEF Typed, Priority
    <3>. QED BY <3>3, <3>4, <3>5
  <2>4. HolderRaised'
    BY <1>2, <1>4, <2>3 DEF HolderRaised
  <2>5. SuccessorReady'
    BY <1>3, <1>4 DEF SuccessorReady
  <2>. QED BY <2>2, <2>4, <2>5 DEF Undisturbed
<1>. QED BY <1>7, <1>8, <1>10, <1>11, <1>12

LEMMA LookTakes ==
  ASSUME Sole, Base, TakeInv, NEW t \in Task, NEW m \in Event,
         MutexLook(t, m)
  PROVE  TakeInv'
<1>. USE DEF Base, TakeInv
<1>1. /\ Runs(t) /\ pc[t] = "app" /\ pxMutexHolder[m] \notin {NULL, t}
      /\ pc' = [pc EXCEPT ![t] = "taken"]
      /\ taking' = [taking EXCEPT ![t] = m]
      /\ UNCHANGED <<store, uxPriority, eventValue, pxMutexHolder, lowered,
                     disturbed, pxCurrentTCB>>
  BY DEF MutexLook, MayBlock, RunsApp, RunsAt, Goto, historyVars, listVars,
         taskVars, runVars
<1>2. t \in TCB /\ pxCurrentTCB = t
  BY <1>1, AtApp
<1>3. /\ taking'[t] = m
      /\ \A u \in Task : u # t => taking'[u] = taking[u]
      /\ pc'[t] = "taken"
      /\ \A u \in TCB : u # t => pc'[u] = pc[u]
  BY <1>1, <1>2 DEF MutexInv, MutexTyped, Typed
<1>4. \A n \in Event : ~Waits(t, n) /\ pxMutexHolder[n] \notin {NULL, t}
  BY <1>1, <1>2, RunnerWaitsNot DEF Sole
<1>5. OtherHolds'
  BY <1>1, <1>3 DEF OtherHolds
<1>6. WaitersTake'
  BY <1>1, <1>3, <1>4 DEF WaitersTake, Waits
<1>7. PlacersWait'
  BY <1>1, <1>3 DEF PlacersWait, TCB
<1>8. ~lowered'
  BY <1>1, <1>2, <1>4 DEF LoweredRuns
<1>9. ASSUME ~disturbed'
      PROVE  Undisturbed'
  <2>1. Undisturbed
    BY <1>1, <1>9
  <2>2. ValuesUsed' /\ EventsSorted'
    BY <1>1, <2>1 DEF Undisturbed, ValuesUsed, EventsSorted, EventItemValue
  <2>3. HolderRaised'
    BY <1>1, <1>3, <2>1 DEF Undisturbed, HolderRaised, Contends, Waits
  <2>4. SuccessorReady'
    BY <1>1, <1>4 DEF SuccessorReady
  <2>. QED BY <2>2, <2>3, <2>4 DEF Undisturbed
<1>. QED BY <1>5, <1>6, <1>7, <1>8, <1>9 DEF LoweredRuns

(* A task in a take suspends the scheduler, or gives up for now. *)
LEMMA QuietTakes ==
  ASSUME Base, TakeInv, NEW t \in Task, MutexSuspend(t) \/ MutexLeave(t)
  PROVE  TakeInv'
<1>. USE DEF Base, TakeInv
<1>1. PICK point \in {"inherit", "unlock"} :
        /\ Runs(t) /\ pc[t] \in {"taken", "inherit"}
        /\ pc' = [pc EXCEPT ![t] = point]
        /\ \/ UNCHANGED taking
           \/ taking' = [taking EXCEPT ![t] = NULL]
        /\ UNCHANGED <<store, uxPriority, eventValue, pxMutexHolder, lowered,
                       disturbed, pxCurrentTCB, phase>>
  BY DEF MutexSuspend, MutexLeave, SuspendAll, RunsAt, Goto, mutexVars,
         historyVars, listVars, taskVars, runVars, loopVars
<1>2. t \in TCB /\ pxCurrentTCB = t
  BY <1>1 DEF Runs, TCB
<1>3. /\ taking'[t] \in {NULL, taking[t]}
      /\ \A u \in Task : u # t => taking'[u] = taking[u]
      /\ pc'[t] = point
      /\ \A u \in TCB : u # t => pc'[u] = pc[u]
  BY <1>1, <1>2 DEF MutexInv, MutexTyped, Typed
<1>4. \A n \in Event : ~Waits(t, n)
  BY <1>1, <1>2, RunnerWaitsNot
<1>5. OtherHolds'
  BY <1>1, <1>3 DEF OtherHolds
<1>6. WaitersTake'
  BY <1>1, <1>3, <1>4 DEF WaitersTake, Waits
<1>7. PlacersWait'
  BY <1>1, <1>3 DEF PlacersWait, TCB
<1>8. ~lowered'
  BY <1>1, <1>2 DEF LoweredRuns
<1>9. ASSUME ~disturbed'
      PROVE  Undisturbed'
  <2>1. Undisturbed
    BY <1>1, <1>9
  <2>2. ValuesUsed' /\ EventsSorted'
    BY <1>1, <2>1 DEF Undisturbed, ValuesUsed, EventsSorted, EventItemValue
  <2>3. HolderRaised'
    BY <1>1, <1>3, <2>1 DEF Undisturbed, HolderRaised, Contends, Waits
  <2>4. SuccessorReady'
    <3>. SUFFICES ASSUME NEW m \in Event, NEW u \in TCB,
                         pxMutexHolder[m] = NULL, phase # "give", Waits(u, m)
                  PROVE  \E w \in Task : Successor(w, m)'
      BY <1>1 DEF SuccessorReady, Waits
    <3>1. PICK w \in Task : Successor(w, m)
      BY <2>1 DEF Undisturbed, SuccessorReady
    <3>2. w # t /\ w \in TCB
      BY <1>1, <3>1 DEF Successor, TCB
    <3>3. Prevails(w, m)'
      BY <1>1, <3>1 DEF Successor, Prevails, Waits
    <3>4. Successor(w, m)'
      BY <1>1, <1>3, <1>8, <3>1, <3>2, <3>3 DEF Successor
    <3>. QED BY <3>4
  <2>. QED BY <2>2, <2>3, <2>4 DEF Undisturbed
<1>. QED BY <1>5, <1>6, <1>7, <1>8, <1>9 DEF LoweredRuns

(* The holder inherits.  It waits for nothing, and afterwards it is at least as
   urgent as the task that is about to wait for it. *)
LEMMA InheritTakes ==
  ASSUME Sole, Base, Base', TakeInv, NEW t \in Task, MutexInherit(t)
  PROVE  TakeInv'
<1>. USE DEF Base, TakeInv
<1>1. /\ Runs(t) /\ pc[t] = "inherit"
      /\ pc' = [pc EXCEPT ![t] = "place"]
      /\ UNCHANGED <<pxMutexHolder, taking, lowered, disturbed, pxCurrentTCB>>
  BY DEF MutexInherit, RunsAt, Goto, mutexVars, historyVars, runVars
<1>2. PICK h \in Task, new \in Priority :
        /\ h = pxMutexHolder[taking[t]]
        /\ taking[t] \in Event
        /\ t \in TCB /\ h \in TCB
        /\ uxPriority' = [uxPriority EXCEPT ![h] = new]
        /\ uxPriority[h] <= new
        /\ uxPriority[t] <= new
        /\ IF store.generic[h] = pxReadyTasksLists(uxPriority[h])
           THEN \/ AddTaskToReadyQueue(RemoveGeneric(store, h), h, new)
                \/ UNCHANGED listVars
           ELSE UNCHANGED listVars
        /\ \/ eventValue' = [eventValue EXCEPT
                                  ![h] = configMAX_PRIORITIES - new]
           \/ new = uxPriority[h] /\ UNCHANGED eventValue
  BY InheritEffect
<1>3. store'.event = store.event
  BY InheritedEffect
<1>4. /\ pxCurrentTCB = t /\ h # NULL
      /\ \A m \in Event : pxMutexHolder[m] = h /\ m = taking[t]
  BY <1>1, <1>2, NullAssumption DEF Runs, Sole
<1>5. /\ pc'[t] = "place"
      /\ \A u \in TCB : u # t => pc'[u] = pc[u]
  BY <1>1, <1>2 DEF Typed
<1>6. taking[h] = NULL
  BY <1>4 DEF OtherHolds, MutexInv, MutexTyped
<1>7. \A m \in Event : ~Waits(h, m) /\ ~Waits(t, m)
  BY <1>1, <1>2, <1>6, NullAssumption, RunnerWaitsNot DEF WaitersTake
<1>8. h # t /\ taking[t] # NULL
  BY <1>2, <1>6, NullAssumption
<1>9. /\ uxPriority'[h] = new
      /\ \A u \in TCB : u # h => uxPriority'[u] = uxPriority[u]
  BY <1>2 DEF Typed
<1>10. OtherHolds'
  BY <1>1 DEF OtherHolds
<1>11. WaitersTake'
  BY <1>1, <1>3, <1>5, <1>7 DEF WaitersTake, Waits
<1>12. PlacersWait'
  BY <1>1, <1>2, <1>4, <1>5 DEF PlacersWait, TCB
<1>13. ~lowered'
  BY <1>1, <1>4 DEF LoweredRuns
<1>14. ASSUME ~disturbed'
       PROVE  Undisturbed'
  <2>1. Undisturbed
    BY <1>1, <1>14
  <2>2. ValuesUsed'
    BY <1>2, <1>9, <2>1 DEF Undisturbed, ValuesUsed, MutexInv, MutexTyped
  <2>3. KeepsOrder(store, store')
    BY <1>2, MovedOrder, SameOrder
  <2>4. EventsSorted'
    BY <1>3, <1>7, <1>9, <2>1, <2>3, SortedWhileKept DEF Undisturbed, Waits
  <2>5. HolderRaised'
    <3>. SUFFICES ASSUME NEW m \in Event, NEW u \in TCB, Contends(u, m)'
                  PROVE  new >= uxPriority'[u]
      BY <1>1, <1>4, <1>9 DEF HolderRaised
    <3>1. /\ uxPriority[u] \in Int /\ uxPriority[h] \in Int /\ new \in Int
      BY <1>2 DEF Typed, Priority
    <3>2. CASE u = t
      BY <1>2, <1>8, <1>9, <3>1, <3>2
    <3>3. CASE u # t
      <4>1. Contends(u, m)
        BY <1>1, <1>3, <1>5, <3>3 DEF Contends, Waits
      <4>2. u # h
        BY <1>6, <1>7, <4>1, NullAssumption DEF Contends
      <4>3. uxPriority[h] >= uxPriority[u]
        BY <1>4, <2>1, <4>1 DEF Undisturbed, HolderRaised
      <4>. QED BY <1>2, <1>9, <3>1, <4>2, <4>3
    <3>. QED BY <3>2, <3>3
  <2>6. SuccessorReady'
    BY <1>1, <1>4 DEF SuccessorReady
  <2>. QED BY <2>2, <2>4, <2>5, <2>6 DEF Undisturbed
<1>. QED BY <1>10, <1>11, <1>12, <1>13, <1>14 DEF LoweredRuns

(* The event item goes in by the value of the priority in use. *)
LEMMA PlaceTakes ==
  ASSUME Sole, Base, Base', TakeInv, NEW t \in Task, MutexPlace(t)
  PROVE  TakeInv'
<1>. USE DEF Base, TakeInv
<1>1. /\ Runs(t) /\ pc[t] = "place" /\ t \in TCB /\ pxCurrentTCB = t
      /\ Goto(t, "placeGeneric")
      /\ store' = InsertEvent(store, EventList(taking[t]), eventValue, t)
      /\ UNCHANGED <<uxPriority, eventValue, pxMutexHolder, taking, lowered,
                     disturbed, pxCurrentTCB>>
      /\ UNCHANGED <<allocated, xSchedulerRunning, phase>>
  BY DEF MutexPlace, RunsAt, Runs, TCB, mutexVars, historyVars, taskVars,
         runVars, loopVars
<1>2. PICK m \in Event : m = taking[t]
  BY <1>1 DEF MutexInv, TakersTake, TakePoints
<1>3. store'.event = [store.event EXCEPT ![t] = EventList(m)]
  BY <1>1, <1>2, PlacedStore
<1>4. /\ pc'[t] = "placeGeneric"
      /\ \A u \in TCB : u # t => pc'[u] = pc[u]
  BY <1>1 DEF Goto, Typed
<1>5. \A n \in Event : n = m /\ pxMutexHolder[n] # NULL
  BY <1>1, <1>2 DEF PlacersWait, Sole
<1>6. \A u \in TCB : u # t => store'.event[u] = store.event[u]
  BY <1>3 DEF Typed, Stores
<1>7. OtherHolds'
  BY <1>1 DEF OtherHolds
<1>8. WaitersTake'
  BY <1>1, <1>2, <1>4, <1>5, <1>6 DEF WaitersTake, Waits, WaitPoints
<1>9. PlacersWait'
  BY <1>1, <1>4 DEF PlacersWait, TCB
<1>10. ~lowered'
  BY <1>1 DEF LoweredRuns
<1>11. ASSUME ~disturbed'
       PROVE  Undisturbed'
  <2>1. Undisturbed
    BY <1>1, <1>11
  <2>2. ValuesUsed'
    BY <1>1, <2>1 DEF Undisturbed, ValuesUsed
  <2>3. eventValue = EventItemValue
    BY <2>1 DEF Undisturbed, ValuesUsed, EventItemValue, MutexInv, MutexTyped
  <2>4. EventsSorted'
    BY <1>1, <1>2, <2>1, <2>3, InsertItemOrder DEF Undisturbed
  <2>5. HolderRaised'
    <3>. SUFFICES ASSUME NEW n \in Event, NEW u \in TCB, Contends(u, n)'
                  PROVE  Contends(u, n)
      BY <1>1, <2>1 DEF Undisturbed, HolderRaised
    <3>. QED BY <1>1, <1>2, <1>4, <1>5, <1>6 DEF Contends, Waits
  <2>6. SuccessorReady'
    BY <1>1, <1>5 DEF SuccessorReady
  <2>. QED BY <2>2, <2>4, <2>5, <2>6 DEF Undisturbed
<1>. QED BY <1>7, <1>8, <1>9, <1>10, <1>11 DEF LoweredRuns

LEMMA GiveTakes ==
  ASSUME Sole, Base, Base', TakeInv, NEW t \in Task, NEW m \in Event,
         MutexGive(t, m)
  PROVE  TakeInv'
<1>. USE DEF Base, TakeInv
<1>1. /\ Runs(t) /\ pc[t] = "app" /\ t \in TCB
      /\ pxMutexHolder' = [pxMutexHolder EXCEPT ![m] = NULL]
      /\ phase' = "give"
      /\ UNCHANGED <<taking, disturbed, pxCurrentTCB, xSchedulerRunning, pc>>
      /\ taking[t] = NULL
  BY DEF MutexGive, MayBlock, RunsApp, RunsAt, Idles, TCB, runVars
<1>2. /\ uxPriority' = [uxPriority EXCEPT ![t] = uxBasePriority[t]]
      /\ uxBasePriority[t] \in Priority
      /\ \/ /\ AddTaskToReadyQueue(RemoveGeneric(store, t), t,
                                   uxBasePriority[t])
            /\ eventValue' = [eventValue EXCEPT
                    ![t] = configMAX_PRIORITIES - uxBasePriority[t]]
         \/ UNCHANGED <<listVars, uxPriority, eventValue>>
  BY GiveEffect DEF listVars
<1>3. store'.event = store.event
  BY GaveEffect
<1>4. /\ pxCurrentTCB = t /\ xSchedulerRunning
      /\ \A u \in TCB : pc[u] \notin Windows
  BY <1>1, AtApp
<1>5. \A n \in Event : pxMutexHolder'[n] = NULL
  BY <1>1 DEF Sole, MutexInv, MutexTyped
<1>6. \A u \in TCB : u # t => uxPriority'[u] = uxPriority[u]
  BY <1>2 DEF Typed
<1>7. \A n \in Event : ~Waits(t, n)
  BY <1>1, RunnerWaitsNot
<1>8. OtherHolds'
  BY <1>1, <1>5, NullAssumption DEF OtherHolds, MutexInv, MutexTyped
<1>9. WaitersTake'
  BY <1>1, <1>3 DEF WaitersTake, Waits
<1>10. PlacersWait'
  BY <1>1, <1>4 DEF PlacersWait, Windows, TCB
<1>11. LoweredRuns'
  BY <1>1, <1>4, <1>5 DEF LoweredRuns
<1>12. ASSUME ~disturbed'
       PROVE  Undisturbed'
  <2>1. Undisturbed
    BY <1>1, <1>12
  <2>2. ValuesUsed'
    BY <1>2, <2>1 DEF Undisturbed, ValuesUsed, MutexInv, MutexTyped, Typed
  <2>3. KeepsOrder(store, store')
    BY <1>1, <1>2, MovedOrder, SameOrder
  <2>4. EventsSorted'
    BY <1>3, <1>6, <1>7, <2>1, <2>3, SortedWhileKept DEF Undisturbed, Waits
  <2>5. HolderRaised' /\ SuccessorReady'
    BY <1>1, <1>5 DEF HolderRaised, SuccessorReady
  <2>. QED BY <2>2, <2>4, <2>5 DEF Undisturbed
<1>. QED BY <1>8, <1>9, <1>10, <1>11, <1>12

(* The mutex is handed on: the head of the list is the most urgent that waits,
   and if the task that gives is not as urgent it yields. *)
LEMMA GivenTakes ==
  ASSUME Sole, Base, Base', TakeInv, MutexGiven
  PROVE  TakeInv'
<1>. USE DEF Base, TakeInv
<1>1. /\ phase = "give" /\ phase' = "run"
      /\ UNCHANGED <<uxPriority, eventValue, pxMutexHolder, taking, lowered,
                     disturbed, pxCurrentTCB, xSchedulerRunning, pc>>
      /\ IF HasWaiter(giving)
         THEN RemoveFromEventList(giving) ELSE UNCHANGED listVars
  BY DEF MutexGiven, historyVars, taskVars, runVars
<1>2. /\ giving \in Event /\ pxCurrentTCB \in Task /\ pxCurrentTCB \in TCB
      /\ pc[pxCurrentTCB] = "app" /\ xSchedulerRunning
  BY <1>1 DEF MutexInv, GivePhase, TCB
<1>3. ASSUME HasWaiter(giving)
      PROVE  LET t == OwnerOfHead(store, EventList(giving))
             IN  /\ t \in TCB
                 /\ store.event[t] = EventList(giving)
                 /\ store'.generic = [store.generic EXCEPT
                                        ![t] = pxReadyTasksLists(uxPriority[t])]
                 /\ store'.event = [store.event EXCEPT ![t] = NULL]
                 /\ yieldPending' = (uxPriority[t] >= uxPriority[pxCurrentTCB])
  BY <1>3, GivenEffect
<1>4. \A u \in TCB : store'.event[u] \in {NULL, store.event[u]}
  <2>1. CASE HasWaiter(giving)
    BY <1>3, <2>1 DEF Typed, Stores
  <2>2. CASE ~HasWaiter(giving)
    BY <1>1, <2>2 DEF listVars
  <2>. QED BY <2>1, <2>2
<1>5. ASSUME NEW u \in TCB, NEW m \in Event, Waits(u, m)'
      PROVE  Waits(u, m)
  BY <1>4, <1>5, ListNames, ListsDisjoint DEF Waits
<1>6. OtherHolds' /\ PlacersWait'
  BY <1>1 DEF OtherHolds, PlacersWait
<1>7. WaitersTake'
  BY <1>1, <1>5 DEF WaitersTake
<1>8. LoweredRuns'
  BY <1>1 DEF LoweredRuns
<1>9. ASSUME ~disturbed'
      PROVE  Undisturbed'
  <2>1. Undisturbed
    BY <1>1, <1>9
  <2>2. ValuesUsed'
    BY <1>1, <2>1 DEF Undisturbed, ValuesUsed
  <2>3. KeepsOrder(store, store')
    <3>1. CASE HasWaiter(giving)
      <4>1. PICK t \in TCB : t = OwnerOfHead(store, EventList(giving))
        BY <1>3, <3>1
      <4>2. pxReadyTasksLists(uxPriority[t]) \in GenericLists \ DelayLists
        BY ListNames DEF Typed
      <4>3. \/ store' = InsertEndGeneric(
                          RemoveGeneric(RemoveEvent(store, t), t),
                          pxReadyTasksLists(uxPriority[t]), t)
            \/ store' = InsertEndEvent(RemoveEvent(store, t),
                                       xPendingReadyList, t)
        BY <1>1, <3>1, <4>1 DEF RemoveFromEventList, AddTaskToReadyQueue
      <4>. QED BY <4>2, <4>3, MoveKeepsOrder DEF Typed
    <3>2. CASE ~HasWaiter(giving)
      BY <1>1, <3>2, SameOrder
    <3>. QED BY <3>1, <3>2
  <2>4. EventsSorted'
    BY <1>1, <2>1, <2>3, SortedWhileKept DEF Undisturbed
  <2>5. HolderRaised'
    BY <1>1, <1>5, <2>1 DEF Undisturbed, HolderRaised, Contends
  <2>6. SuccessorReady'
    <3>. SUFFICES ASSUME NEW m \in Event, NEW u \in TCB, Waits(u, m)'
                  PROVE  \E w \in Task : Successor(w, m)'
      BY DEF SuccessorReady
    <3>1. m = giving /\ Waits(u, m) /\ EventList(m) \in EventLists
      BY <1>2, <1>5, ListNames DEF Sole
    <3>2. ASSUME NEW v \in TCB, Waits(v, m)
          PROVE  Contains(store.ring[EventList(m)], v)
      BY <3>1, <3>2 DEF Waits, StoreInv, StoreConsistent, StoreOK
    <3>3. HasWaiter(giving)
      BY <3>1, RingMembers DEF HasWaiter, Waits, Typed, StoreInv,
                               StoreConsistent
    <3>4. PICK w \in TCB :
            /\ w = OwnerOfHead(store, EventList(m))
            /\ Waits(w, m)
            /\ store'.generic[w] = pxReadyTasksLists(uxPriority[w])
            /\ yieldPending' = (uxPriority[w] >= uxPriority[pxCurrentTCB])
      BY <1>3, <3>1, <3>3 DEF Waits, Typed, Stores
    <3>5. w \in Task /\ taking[w] = m /\ pc[w] \in {"app", "yield"}
      <4>1. w \in Task /\ taking[w] = m /\ pc[w] \in WaitPoints
        BY <3>4 DEF WaitersTake
      <4>2. pc[w] \notin Windows
        BY <1>2 DEF LockInv, WindowsAlone, Windows
      <4>. QED BY <4>1, <4>2 DEF WaitPoints, Windows
    <3>6. store'.generic[w] \in ReadyLists
      BY <3>4, ListNames DEF Typed
    <3>7. Prevails(w, m)
      <4>. SUFFICES ASSUME NEW v \in TCB, Waits(v, m)
                    PROVE  uxPriority[w] >= uxPriority[v]
        BY DEF Prevails
      <4>1. /\ store.ring[EventList(m)] \in Seq(TCB)
            /\ Ordered(store.ring[EventList(m)], EventItemValue)
            /\ Contains(store.ring[EventList(m)], v)
        BY <2>1, <3>1, <3>2, ListsDisjoint
           DEF Undisturbed, EventsSorted, Typed, Stores
      <4>2. EventItemValue[w] <= EventItemValue[v]
        BY <3>4, <4>1, EventItemType, OrderedHead DEF OwnerOfHead, IsEmpty
      <4>3. uxPriority[w] \in Nat /\ uxPriority[v] \in Nat
        BY DEF Typed, Priority
      <4>. QED BY <4>2, <4>3, EventItemType, PrioritiesAssumption
    <3>8. Prevails(w, m)'
      BY <1>1, <1>5, <3>7 DEF Prevails
    <3>9. AtLarge' => uxPriority'[pxCurrentTCB'] >= uxPriority'[w]
      <4>1. /\ uxPriority[w] \in Nat /\ uxPriority[pxCurrentTCB] \in Nat
            /\ uxPriority'[pxCurrentTCB'] = uxPriority[pxCurrentTCB]
            /\ uxPriority'[w] = uxPriority[w]
        BY <1>1, <1>2 DEF Typed, Priority
      <4>2. AtLarge' => ~(uxPriority[w] >= uxPriority[pxCurrentTCB])
        BY <3>4, Zenon DEF AtLarge
      <4>. QED BY <4>1, <4>2
    <3>10. Successor(w, m)'
      BY <1>1, <3>5, <3>6, <3>8, <3>9 DEF Successor
    <3>. QED BY <3>5, <3>10
  <2>. QED BY <2>2, <2>4, <2>5, <2>6 DEF Undisturbed
<1>. QED BY <1>6, <1>7, <1>8, <1>9

LEMMA SetTakes ==
  ASSUME Base, TakeInv, NEW c \in Task, NEW t \in Task,
         NEW p \in RequestedPriority, MutexPrioritySet(c, t, p)
  PROVE  TakeInv'
<1>1. /\ disturbed'
      /\ UNCHANGED <<pxMutexHolder, taking, lowered, pxCurrentTCB, phase, pc,
                     xSchedulerRunning>>
  BY DEF MutexPrioritySet, mutexVars, runVars, loopVars
<1>2. store'.event = store.event
  BY SetEffect
<1>. QED BY <1>1, <1>2 DEF TakeInv, OtherHolds, WaitersTake, Waits,
            PlacersWait, LoweredRuns

LEMMA TakeInit == MutexInit => TakeInv
<1>. SUFFICES ASSUME MutexInit PROVE TakeInv
  OBVIOUS
<1>1. \A e \in Event : store.ring[EventList(e)] = <<>>
  BY ListNames, ListsDisjoint DEF MutexInit, Init, EmptyStore
<1>2. EventsSorted
  BY <1>1 DEF EventsSorted, Ordered
<1>3. /\ \A t \in TCB : pc[t] = "app" /\ uxPriority[t] = 0
      /\ \A t \in TCB, m \in Event : ~Waits(t, m)
      /\ \A t \in Task : taking[t] = NULL
      /\ \A m \in Event : pxMutexHolder[m] = NULL
      /\ \A t \in TCB : eventValue[t] = configMAX_PRIORITIES
      /\ ~lowered
  BY ListNames, ListsDisjoint DEF MutexInit, Init, EmptyStore, Waits
<1>4. ValuesUsed
  BY <1>3, PrioritiesAssumption DEF ValuesUsed
<1>. QED BY <1>2, <1>3, <1>4, IdleAssumption
         DEF TakeInv, OtherHolds, WaitersTake, PlacersWait, LoweredRuns,
             Undisturbed, HolderRaised, SuccessorReady, TCB

LEMMA TakeStep ==
  ASSUME Sole, Base, Dispatched, TakeInv, [MutexNext]_mVars
  PROVE  TakeInv'
<1>1. Base'
  BY BaseStep
<1>2. CASE UNCHANGED mVars
  BY <1>2 DEF mVars, vars, mutexVars, historyVars, tickVars, listVars,
              taskVars, loopVars, runVars, TakeInv, OtherHolds, WaitersTake,
              Waits, PlacersWait, LoweredRuns, Undisturbed, ValuesUsed,
              EventsSorted, EventItemValue, HolderRaised, Contends,
              SuccessorReady, Successor, Prevails, AtLarge
<1>3. CASE MutexNext
  <2>1. ASSUME NEW t \in Task, NEW m \in Event,
               MutexTake(t, m) \/ MutexLook(t, m) \/ MutexGive(t, m)
        PROVE  TakeInv'
    BY <1>1, <2>1, TakeTakes, LookTakes, GiveTakes
  <2>2. ASSUME NEW t \in Task,
               \/ MutexSuspend(t) \/ MutexInherit(t) \/ MutexLeave(t)
               \/ MutexPlace(t)
        PROVE  TakeInv'
    BY <1>1, <2>2, QuietTakes, InheritTakes, PlaceTakes
  <2>. QED BY <1>1, <1>3, <2>1, <2>2, MutexNextCases, KernelsTake, GivenTakes,
              SetTakes DEF Dispatched
<1>. QED BY <1>2, <1>3

(* No priority inversion with one mutex: while somebody waits for it, its
   holder is at least as urgent, whoever inherits, gives, takes or times out.
   (One mutex, because vTaskPriorityDisinherit takes back all that a task has
   inherited, also for the mutexes it still holds.) *)
THEOREM NobodyInverted ==
  (\A m, n \in Event : m = n) => (MutexSpec => []NoInversion)
<1>. SUFFICES ASSUME Sole PROVE MutexSpec => []NoInversion
  BY DEF Sole
<1>1. Base /\ Dispatched /\ TakeInv /\ [MutexNext]_mVars => TakeInv'
  BY TakeStep
<1>2. TakeInv => NoInversion
  BY DEF TakeInv, Undisturbed, HolderRaised, Contends, NoInversion, TCB
<1>. QED BY <1>1, <1>2, TakeInit, BaseInvariance, DispatchedInvariance, PTL
         DEF MutexSpec

=============================================================================

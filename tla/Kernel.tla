------------------------------- MODULE Kernel -------------------------------
(***************************************************************************)
(* The scheduler core of tasks.c, from the first xTaskGenericCreate in     *)
(* main() on, with the code's interleavings: every access the running task *)
(* makes outside a critical section is a step of its own, interrupts come  *)
(* between any two steps, and the loops the kernel runs with interrupts    *)
(* masked (xTaskResumeAll, prvCheckDelayedTasks) make one iteration per    *)
(* step.  The frozen configuration is followed: preemption on, no mutexes, *)
(* no tick hook, configIDLE_SHOULD_YIELD 1.                                *)
(***************************************************************************)
EXTENDS KernelLists

CONSTANTS
  Include,           \* the API functions compiled in (the INCLUDE_ flags)
  TickCount,         \* number of values of portTickType (2^32 in the port)
  OverflowCount,     \* number of values of xNumOfOverflows (2^32 in the port)
  MaxNesting,        \* bound: depth of the application's vTaskSuspendAll calls
  MaxMissedTicks     \* bound: ticks that arrive in a suspension

ASSUME IncludeAssumption ==
  Include \subseteq {"vTaskDelay", "vTaskDelayUntil", "vTaskDelete",
                     "vTaskPrioritySet", "vTaskSuspend", "xTaskResumeFromISR"}
ASSUME CountAssumption ==
  /\ TickCount \in Nat /\ TickCount >= 2
  /\ OverflowCount \in Nat \ {0}
  /\ MaxNesting \in Nat
  /\ MaxMissedTicks \in Nat

Tick == 0 .. TickCount - 1
portMAX_DELAY == TickCount - 1

VARIABLES
  store,                      \* every xList, and every pvContainer
  xItemValue,                 \* value of the generic item (the wake time) of
                              \* each delayed task; 0 where it is never read
  uxPriority,
  allocated,                  \* tasks whose TCB is allocated
  pxCurrentTCB,
  xSchedulerRunning,
  pxDelayedTaskList, pxOverflowDelayedTaskList,
  xTickCount, xNumOfOverflows,
  uxTopReadyPriority, uxTopUsedPriority,
  uxSchedulerSuspended, uxMissedTicks, xMissedYield,
  uxCurrentNumberOfTasks, uxTasksDeleted,
  pc,                         \* where each task is in the API call it makes
  phase,                      \* "run", or the loop the kernel is in, masked
  yieldRequired,              \* xYieldRequired of xTaskResumeAll
  yieldPending,               \* the port's pending context switch
  queueLock,                  \* the lock of the queue of each event list
  ticksLeft,                  \* history: ticks until each delayed task is due
  ticksArrived                \* history: tick interrupts so far

tickVars    == <<xTickCount, xNumOfOverflows, pxDelayedTaskList,
                 pxOverflowDelayedTaskList, ticksArrived>>
listVars    == <<store, uxTopReadyPriority>>
delayVars   == <<xItemValue, ticksLeft>>
taskVars    == <<allocated, uxPriority, uxTopUsedPriority,
                 uxCurrentNumberOfTasks, uxTasksDeleted>>
suspendVars == <<uxSchedulerSuspended, uxMissedTicks, xMissedYield>>
loopVars    == <<phase, yieldRequired>>
runVars     == <<pxCurrentTCB, xSchedulerRunning>>
vars == <<tickVars, listVars, delayVars, taskVars, suspendVars, loopVars,
          runVars, pc, yieldPending, queueLock>>

-----------------------------------------------------------------------------
(* The control points of a task: "app" is its own code, "yield" the call of
   portYIELD_WITHIN_API at the end of an API function. *)
WindowPoints == {"delay", "until", "insert", "place", "placeGeneric",
                 "placeInsert", "unlock", "resume",
                 "reapRead", "reapEmpty", "reapFull"}
Points == {"app", "yield", "reap", "idleYield"} \cup WindowPoints

Phases == {"run", "drain", "replay", "tickWake", "replayWake"}

TypeOK ==
  /\ store \in Stores
  /\ xItemValue \in [TCB -> Tick]
  /\ uxPriority \in [TCB -> Priority]
  /\ allocated \subseteq TCB
  /\ pxCurrentTCB \in TCB \cup {NULL}
  /\ xSchedulerRunning \in BOOLEAN
  /\ pxDelayedTaskList \in DelayLists
  /\ pxOverflowDelayedTaskList \in DelayLists
  /\ xTickCount \in Tick
  /\ xNumOfOverflows \in 0 .. OverflowCount - 1
  /\ uxTopReadyPriority \in Priority
  /\ uxTopUsedPriority \in Priority
  /\ uxSchedulerSuspended \in Nat
  /\ uxMissedTicks \in 0 .. MaxMissedTicks
  /\ xMissedYield \in BOOLEAN
  /\ uxCurrentNumberOfTasks \in Int
  /\ uxTasksDeleted \in Int
  /\ pc \in [TCB -> Points]
  /\ phase \in Phases
  /\ yieldRequired \in BOOLEAN
  /\ yieldPending \in BOOLEAN
  /\ queueLock \in [Event -> {"unlocked", "locked", "posted"}]
  /\ ticksLeft \in [TCB -> Tick]
  /\ ticksArrived \in Tick

(* The kernel's static data, before main() creates the first task. *)
Init ==
  /\ store = EmptyStore
  /\ xItemValue = [t \in TCB |-> 0]
  /\ uxPriority = [t \in TCB |-> 0]
  /\ allocated = {}
  /\ pxCurrentTCB = NULL
  /\ xSchedulerRunning = FALSE
  /\ pxDelayedTaskList = xDelayedTaskList1
  /\ pxOverflowDelayedTaskList = xDelayedTaskList2
  /\ xTickCount = 0
  /\ xNumOfOverflows = 0
  /\ uxTopReadyPriority = 0
  /\ uxTopUsedPriority = 0
  /\ uxSchedulerSuspended = 0
  /\ uxMissedTicks = 0
  /\ xMissedYield = FALSE
  /\ uxCurrentNumberOfTasks = 0
  /\ uxTasksDeleted = 0
  /\ pc = [t \in TCB |-> "app"]
  /\ phase = "run"
  /\ yieldRequired = FALSE
  /\ yieldPending = FALSE
  /\ queueLock = [e \in Event |-> "unlocked"]
  /\ ticksLeft = [t \in TCB |-> 0]
  /\ ticksArrived = 0

-----------------------------------------------------------------------------
(* Helpers *)

(* Interrupts are enabled once the scheduler runs, outside the masked loops;
   every other critical section is a single step of this module. *)
InterruptsEnabled == xSchedulerRunning /\ phase = "run"

(* The running task makes its next step only when no context switch is
   pending: the port takes a requested switch before the next instruction. *)
Runs(t) == InterruptsEnabled /\ ~yieldPending /\ pxCurrentTCB = t

RunsAt(t, point) == Runs(t) /\ pc[t] = point
RunsApp(t) == t \in Task /\ RunsAt(t, "app")

(* Tasks an API call may name: allocated and not deleted (a handle must not be
   used after vTaskDelete), the idle task excepted. *)
Live == {t \in allocated \ {Idle} :
           store.generic[t] # xTasksWaitingTermination}

Goto(t, point) == pc' = [pc EXCEPT ![t] = point]

Larger(m, n) == IF m > n THEN m ELSE n

(* Mutated form: the priority is used as an index without the cap. *)
Capped_Not(p) == p

Capped(p) == IF p >= configMAX_PRIORITIES THEN configMAX_PRIORITIES - 1 ELSE p

(* Mutated forms: the list is chosen by the priority the task had before, and
   the highest ready priority is not noted. *)
AddTaskToReadyQueue_OldList(L, t, p) ==
  /\ store' = InsertEndGeneric(L, pxReadyTasksLists(uxPriority[t]), t)
  /\ uxTopReadyPriority' = Larger(uxTopReadyPriority, p)
AddTaskToReadyQueue_NoTop(L, t, p) ==
  /\ store' = InsertEndGeneric(L, pxReadyTasksLists(p), t)
  /\ UNCHANGED uxTopReadyPriority

(* prvAddTaskToReadyQueue, in the store L left by the caller, for a task whose
   priority is p. *)
AddTaskToReadyQueue(L, t, p) ==
  /\ store' = InsertEndGeneric(L, pxReadyTasksLists(p), t)
  /\ uxTopReadyPriority' = Larger(uxTopReadyPriority, p)

(* Task t leaves its delay list, if it is in one. *)
EndDelay(t) ==
  /\ xItemValue' = [xItemValue EXCEPT ![t] = 0]
  /\ ticksLeft' = [ticksLeft EXCEPT ![t] = 0]

(* Mutated form: ascending priority. *)
EventItemValue_Ascending == uxPriority

(* Event items are sorted by descending priority of their tasks. *)
EventItemValue == [t \in TCB |-> configMAX_PRIORITIES - uxPriority[t]]

(* Mutated form: without the tests on the event item. *)
IsTaskSuspended_GenericOnly(t) == store.generic[t] = xSuspendedTaskList

IsTaskSuspended(t) ==
  /\ store.generic[t] = xSuspendedTaskList
  /\ store.event[t] # xPendingReadyList
  /\ store.event[t] = NULL

-----------------------------------------------------------------------------
(* xTaskGenericCreate.  p is the priority asked for; prvInitialiseTCBVariables
   caps the one that is used.  The first task created initialises the lists. *)
Create(t, p) ==
  LET first == pxCurrentTCB = NULL /\ uxCurrentNumberOfTasks + 1 = 1
      capped == Capped(p)
  IN  /\ t \notin allocated
      /\ allocated' = allocated \cup {t}
      /\ uxPriority' = [uxPriority EXCEPT ![t] = capped]
      /\ uxCurrentNumberOfTasks' = uxCurrentNumberOfTasks + 1
      /\ pxCurrentTCB' =
            IF \/ pxCurrentTCB = NULL
               \/ ~xSchedulerRunning /\ uxPriority[pxCurrentTCB] <= p
            THEN t ELSE pxCurrentTCB
      /\ uxTopUsedPriority' = Larger(uxTopUsedPriority, capped)
      /\ AddTaskToReadyQueue(IF first THEN EmptyStore ELSE store, t, capped)
      /\ pxDelayedTaskList' =
            IF first THEN xDelayedTaskList1 ELSE pxDelayedTaskList
      /\ pxOverflowDelayedTaskList' =
            IF first THEN xDelayedTaskList2 ELSE pxOverflowDelayedTaskList
      /\ UNCHANGED <<uxTasksDeleted, xNumOfOverflows, delayVars, suspendVars,
                     loopVars, queueLock>>

RequestedPriority == 0 .. configMAX_PRIORITIES

(* main() creates a task before it starts the scheduler. *)
CreateBeforeStart(t, p) ==
  /\ ~xSchedulerRunning
  /\ Create(t, p)
  /\ UNCHANGED <<xSchedulerRunning, xTickCount, ticksArrived, pc, yieldPending>>

(* vTaskStartScheduler: creates the idle task and lets the port start the task
   pxCurrentTCB points to; interrupts are off until that task runs. *)
StartScheduler ==
  /\ ~xSchedulerRunning
  /\ Create(Idle, 0)
  /\ xSchedulerRunning' = TRUE
  /\ xTickCount' = 0
  /\ ticksArrived' = 0
  /\ UNCHANGED <<pc, yieldPending>>

(* Task c creates task t, and yields when t has the higher priority. *)
CreateTask(c, t, p) ==
  /\ RunsApp(c)
  /\ Create(t, p)
  /\ pc' = [pc EXCEPT ![t] = "app",
                      ![c] = IF uxPriority[c] < p THEN "yield" ELSE "app"]
  /\ UNCHANGED <<xSchedulerRunning, xTickCount, ticksArrived, yieldPending>>

-----------------------------------------------------------------------------
(* vTaskSuspendAll and the port's yield *)

(* ++uxSchedulerSuspended, then on to `point'. *)
SuspendAll(t, point) ==
  /\ uxSchedulerSuspended' = uxSchedulerSuspended + 1
  /\ Goto(t, point)
  /\ UNCHANGED <<tickVars, listVars, delayVars, taskVars, uxMissedTicks,
                 xMissedYield, loopVars, runVars, yieldPending>>

(* The application locks the scheduler itself; it may nest the calls. *)
AppSuspendAll(t) ==
  /\ RunsApp(t)
  /\ uxSchedulerSuspended < MaxNesting
  /\ SuspendAll(t, "app")
  /\ UNCHANGED queueLock

(* portYIELD: the switch happens before the task's next step. *)
RequestSwitch(t) ==
  /\ yieldPending' = TRUE
  /\ Goto(t, "app")
  /\ UNCHANGED <<tickVars, listVars, delayVars, taskVars, suspendVars,
                 loopVars, runVars, queueLock>>

(* The portYIELD_WITHIN_API that ends an API call. *)
YieldWithinAPI(t) == RunsAt(t, "yield") /\ RequestSwitch(t)

(* taskYIELD, called by the application. *)
TaskYield(t) == RunsApp(t) /\ RequestSwitch(t)

-----------------------------------------------------------------------------
(* vTaskDelay and vTaskDelayUntil.  A task must not block while it has the
   scheduler suspended (task.h:856-859). *)

MayBlock(t) == RunsApp(t) /\ uxSchedulerSuspended = 0

(* vTaskDelay( 0 ) only forces a reschedule. *)
DelayZero(t) ==
  /\ "vTaskDelay" \in Include
  /\ MayBlock(t)
  /\ Goto(t, "yield")
  /\ UNCHANGED <<tickVars, listVars, delayVars, taskVars, suspendVars,
                 loopVars, runVars, yieldPending, queueLock>>

DelaySuspend(t) ==
  /\ "vTaskDelay" \in Include
  /\ MayBlock(t)
  /\ SuspendAll(t, "delay")
  /\ UNCHANGED queueLock

DelayUntilSuspend(t) ==
  /\ "vTaskDelayUntil" \in Include
  /\ MayBlock(t)
  /\ SuspendAll(t, "until")
  /\ UNCHANGED queueLock

(* The running task takes itself off the ready list and notes its wake time;
   left is the number of ticks it means to sleep. *)
UnlinkToWakeAt(t, wake, left) ==
  /\ store' = RemoveGeneric(store, t)
  /\ xItemValue' = [xItemValue EXCEPT ![t] = wake]
  /\ ticksLeft' = [ticksLeft EXCEPT ![t] = left]
  /\ Goto(t, "insert")

(* xTimeToWake = xTickCount + xTicksToDelay, in portTickType arithmetic. *)
DelayUnlink(t) ==
  /\ RunsAt(t, "delay")
  /\ \E xTicksToDelay \in Tick \ {0} :
        UnlinkToWakeAt(t, (xTickCount + xTicksToDelay) % TickCount,
                       xTicksToDelay)
  /\ UNCHANGED <<uxTopReadyPriority, tickVars, taskVars, suspendVars, loopVars,
                 runVars, yieldPending, queueLock>>

(* Whether vTaskDelayUntil blocks, from the wrapped times alone. *)
ShouldDelay(previous, wake, now) ==
  IF now < previous
  THEN wake < previous /\ wake > now
  ELSE wake < previous \/ wake > now

(* The previous wake time is some number of ticks in the past, less than one
   wrap of the tick count; the task asks to wake xTimeIncrement ticks after. *)
UntilDecide(t) ==
  /\ RunsAt(t, "until")
  /\ \E age \in Tick, xTimeIncrement \in Tick \ {0} :
        LET previous == (xTickCount + TickCount - age) % TickCount
            wake == (previous + xTimeIncrement) % TickCount
        IN  IF ShouldDelay(previous, wake, xTickCount)
            THEN UnlinkToWakeAt(t, wake, xTimeIncrement - age)
            ELSE /\ Goto(t, "resume")
                 /\ UNCHANGED <<store, delayVars>>
  /\ UNCHANGED <<uxTopReadyPriority, tickVars, taskVars, suspendVars, loopVars,
                 runVars, yieldPending, queueLock>>

(* Mutated form: the overflow is not noticed. *)
DelayListFor_NoOverflow(wake) == pxDelayedTaskList

(* A wake time before the current tick has overflowed: it belongs to the list
   that becomes current when the tick count wraps. *)
DelayListFor(wake) ==
  IF wake < xTickCount THEN pxOverflowDelayedTaskList ELSE pxDelayedTaskList

DelayInsert(t) ==
  /\ RunsAt(t, "insert")
  /\ store' = InsertGeneric(store, DelayListFor(xItemValue[t]), xItemValue, t)
  /\ Goto(t, "resume")
  /\ UNCHANGED <<uxTopReadyPriority, tickVars, delayVars, taskVars, suspendVars,
                 loopVars, runVars, yieldPending, queueLock>>

-----------------------------------------------------------------------------
(* vTaskPlaceOnEventList, called the way a blocking queue operation does: the
   scheduler suspended and the queue locked, so that an interrupt that uses the
   queue meanwhile only counts on the lock.  The queue is outside tasks.c. *)

QueueSuspend(t, e) ==
  /\ MayBlock(t)
  /\ SuspendAll(t, "place")
  /\ queueLock' = [queueLock EXCEPT ![e] = "locked"]

(* First the event item, by priority ... *)
PlaceEventItem(t) ==
  /\ RunsAt(t, "place")
  /\ \E e \in Event :
        /\ queueLock[e] # "unlocked"
        /\ store' = InsertEvent(store, EventList(e), EventItemValue, t)
  /\ Goto(t, "placeGeneric")
  /\ UNCHANGED <<uxTopReadyPriority, tickVars, delayVars, taskVars, suspendVars,
                 loopVars, runVars, yieldPending, queueLock>>

(* ... then the generic item off the ready list ... *)
PlaceUnlink(t) ==
  /\ RunsAt(t, "placeGeneric")
  /\ store' = RemoveGeneric(store, t)
  /\ Goto(t, "placeInsert")
  /\ UNCHANGED <<uxTopReadyPriority, tickVars, delayVars, taskVars, suspendVars,
                 loopVars, runVars, yieldPending, queueLock>>

(* ... and into the suspended list to wait for ever, or into a delay list. *)
PlaceInsert(t) ==
  /\ RunsAt(t, "placeInsert")
  /\ \E xTicksToWait \in Tick \ {0} :
        IF xTicksToWait = portMAX_DELAY /\ "vTaskSuspend" \in Include
        THEN /\ store' = InsertEndGeneric(store, xSuspendedTaskList, t)
             /\ UNCHANGED delayVars
        ELSE /\ xItemValue' = [xItemValue EXCEPT
                    ![t] = (xTickCount + xTicksToWait) % TickCount]
             /\ ticksLeft' = [ticksLeft EXCEPT ![t] = xTicksToWait]
             /\ store' = InsertGeneric(store, DelayListFor(xItemValue'[t]),
                                       xItemValue', t)
  /\ Goto(t, "unlock")
  /\ UNCHANGED <<uxTopReadyPriority, tickVars, taskVars, suspendVars, loopVars,
                 runVars, yieldPending, queueLock>>

(* Mutated form: the suspension is not looked at. *)
ListsAccessible_Always == TRUE

(* Interrupts and tasks alike leave the ready and delay lists alone while some
   task has the scheduler suspended. *)
ListsAccessible == uxSchedulerSuspended = 0

(* xTaskRemoveFromEventList: the head of the event list is readied, or held in
   the pending list while the scheduler is suspended. *)
RemoveFromEventList(e) ==
  LET pxUnblockedTCB == OwnerOfHead(store, EventList(e))
      unlinked == RemoveEvent(store, pxUnblockedTCB)
  IN  IF ListsAccessible
      THEN /\ AddTaskToReadyQueue(RemoveGeneric(unlinked, pxUnblockedTCB),
                                  pxUnblockedTCB, uxPriority[pxUnblockedTCB])
           /\ EndDelay(pxUnblockedTCB)
      ELSE /\ store' = InsertEndEvent(unlinked, xPendingReadyList, pxUnblockedTCB)
           /\ UNCHANGED <<uxTopReadyPriority, delayVars>>

(* Mutated form: the comparison the other way round. *)
UnblocksHigher_Swapped(e) ==
  uxPriority[OwnerOfHead(store, EventList(e))] <= uxPriority[pxCurrentTCB]

(* The result of xTaskRemoveFromEventList: the caller should yield. *)
UnblocksHigher(e) ==
  uxPriority[OwnerOfHead(store, EventList(e))] >= uxPriority[pxCurrentTCB]

HasWaiter(e) == ~IsEmpty(store, EventList(e))

(* prvUnlockQueue, in a critical section: what interrupts did to the queue
   meanwhile is made good, and vTaskMissedYield notes the yield they owe. *)
QueueUnlock(t) ==
  /\ RunsAt(t, "unlock")
  /\ \E e \in Event :
        /\ queueLock[e] # "unlocked"
        /\ queueLock' = [queueLock EXCEPT ![e] = "unlocked"]
        /\ IF queueLock[e] = "posted" /\ HasWaiter(e)
           THEN /\ RemoveFromEventList(e)
                /\ xMissedYield' = (xMissedYield \/ UnblocksHigher(e))
           ELSE UNCHANGED <<listVars, delayVars, xMissedYield>>
  /\ Goto(t, "resume")
  /\ UNCHANGED <<tickVars, taskVars, uxSchedulerSuspended, uxMissedTicks,
                 loopVars, runVars, yieldPending>>

(* A task makes the event happen (xQueueGenericSend and the like). *)
TaskSignals(t, e) ==
  /\ MayBlock(t)
  /\ queueLock[e] = "unlocked"
  /\ HasWaiter(e)
  /\ RemoveFromEventList(e)
  /\ yieldPending' = UnblocksHigher(e)
  /\ UNCHANGED <<tickVars, taskVars, suspendVars, loopVars, runVars, pc,
                 queueLock>>

(* An interrupt makes the event happen, and requests a switch as it was told. *)
InterruptSignals(e) ==
  /\ InterruptsEnabled
  /\ queueLock[e] = "unlocked"
  /\ HasWaiter(e)
  /\ RemoveFromEventList(e)
  /\ yieldPending' = (yieldPending \/ UnblocksHigher(e))
  /\ UNCHANGED <<tickVars, taskVars, suspendVars, loopVars, runVars, pc,
                 queueLock>>

InterruptSignalsLocked(e) ==
  /\ InterruptsEnabled
  /\ queueLock[e] = "locked"
  /\ queueLock' = [queueLock EXCEPT ![e] = "posted"]
  /\ UNCHANGED <<tickVars, listVars, delayVars, taskVars, suspendVars,
                 loopVars, runVars, pc, yieldPending>>

-----------------------------------------------------------------------------
(* xTaskResumeAll *)

(* Where the caller goes on; yielded is the value xTaskResumeAll returns. *)
AfterResumeAll(point, yielded) ==
  CASE point = "resume"    -> IF yielded THEN "app" ELSE "yield"
    [] point = "reapFull"  -> "reap"
    [] point = "reapEmpty" -> "idleYield"
    [] OTHER               -> "app"

(* --uxSchedulerSuspended, with interrupts masked from here on when that ends
   the suspension. *)
ResumeAll(t) ==
  /\ Runs(t)
  /\ \/ pc[t] \in {"resume", "reapEmpty", "reapFull"}
     \/ RunsApp(t) /\ uxSchedulerSuspended > 0
  /\ uxSchedulerSuspended' = uxSchedulerSuspended - 1
  /\ IF uxSchedulerSuspended = 1 /\ uxCurrentNumberOfTasks > 0
     THEN phase' = "drain" /\ pc' = pc
     ELSE phase' = phase /\ Goto(t, AfterResumeAll(pc[t], FALSE))
  /\ UNCHANGED <<tickVars, listVars, delayVars, taskVars, uxMissedTicks,
                 xMissedYield, yieldRequired, runVars, yieldPending, queueLock>>

(* Mutated form: the pending list is forgotten. *)
PendingDrained_Always == TRUE

PendingDrained == IsEmpty(store, xPendingReadyList)

(* The tasks interrupts have readied meanwhile move to their ready lists. *)
DrainPending ==
  /\ phase = "drain"
  /\ ~PendingDrained
  /\ LET t == OwnerOfHead(store, xPendingReadyList)
     IN  /\ AddTaskToReadyQueue(RemoveGeneric(RemoveEvent(store, t), t),
                                t, uxPriority[t])
         /\ EndDelay(t)
         /\ yieldRequired' =
               (yieldRequired \/ uxPriority[t] >= uxPriority[pxCurrentTCB])
  /\ UNCHANGED <<tickVars, taskVars, suspendVars, phase, runVars, pc,
                 yieldPending, queueLock>>

DrainDone ==
  /\ phase = "drain"
  /\ PendingDrained
  /\ phase' = "replay"
  /\ UNCHANGED <<tickVars, listVars, delayVars, taskVars, suspendVars,
                 yieldRequired, runVars, pc, yieldPending, queueLock>>

-----------------------------------------------------------------------------
(* vTaskIncrementTick and prvCheckDelayedTasks *)

Delayed(t) == store.generic[t] \in DelayLists

(* Mutated forms: a tick count that saturates, and lists that do not swap. *)
NextTick_Saturating ==
  IF xTickCount = TickCount - 1 THEN xTickCount ELSE xTickCount + 1
SwapDelayLists_Not == UNCHANGED <<pxDelayedTaskList, pxOverflowDelayedTaskList>>

NextTick == (xTickCount + 1) % TickCount

SwapDelayLists ==
  /\ pxDelayedTaskList' = pxOverflowDelayedTaskList
  /\ pxOverflowDelayedTaskList' = pxDelayedTaskList

(* ++xTickCount; the delay lists swap when it wraps. *)
IncrementTick ==
  /\ xTickCount' = NextTick
  /\ IF NextTick = 0
     THEN /\ SwapDelayLists
          /\ xNumOfOverflows' = (xNumOfOverflows + 1) % OverflowCount
     ELSE UNCHANGED <<pxDelayedTaskList, pxOverflowDelayedTaskList,
                      xNumOfOverflows>>
  /\ ticksLeft' = [t \in TCB |-> IF Delayed(t) /\ ticksLeft[t] > 0
                                 THEN ticksLeft[t] - 1 ELSE ticksLeft[t]]

(* The tick interrupt while the scheduler runs: prvCheckDelayedTasks follows. *)
TickInterrupt ==
  /\ InterruptsEnabled
  /\ uxSchedulerSuspended = 0
  /\ IncrementTick
  /\ ticksArrived' = (ticksArrived + 1) % TickCount
  /\ phase' = "tickWake"
  /\ UNCHANGED <<listVars, xItemValue, taskVars, suspendVars, yieldRequired,
                 runVars, pc, yieldPending, queueLock>>

(* The tick interrupt while the scheduler is suspended: the tick is counted. *)
TickInterruptMissed ==
  /\ InterruptsEnabled
  /\ uxSchedulerSuspended > 0
  /\ uxMissedTicks < MaxMissedTicks
  /\ uxMissedTicks' = uxMissedTicks + 1
  /\ ticksArrived' = (ticksArrived + 1) % TickCount
  /\ yieldPending' = TRUE
  /\ UNCHANGED <<listVars, delayVars, xTickCount, xNumOfOverflows,
                 pxDelayedTaskList, pxOverflowDelayedTaskList, taskVars,
                 uxSchedulerSuspended, xMissedYield, loopVars, runVars, pc,
                 queueLock>>

(* Mutated form: one tick is left behind. *)
TicksReplayed_AllButOne == uxMissedTicks <= 1

TicksReplayed == uxMissedTicks = 0

(* xTaskResumeAll replays a counted tick. *)
ReplayTick ==
  /\ phase = "replay"
  /\ ~TicksReplayed
  /\ IncrementTick
  /\ phase' = "replayWake"
  /\ yieldRequired' = TRUE
  /\ UNCHANGED <<listVars, xItemValue, ticksArrived, taskVars, suspendVars,
                 runVars, pc, yieldPending, queueLock>>

(* Mutated forms: a task is woken one tick late, or one tick early. *)
HeadIsDue_Late ==
  /\ ~IsEmpty(store, pxDelayedTaskList)
  /\ xTickCount > xItemValue[OwnerOfHead(store, pxDelayedTaskList)]
HeadIsDue_Early ==
  /\ ~IsEmpty(store, pxDelayedTaskList)
  /\ xTickCount + 1 >= xItemValue[OwnerOfHead(store, pxDelayedTaskList)]

(* prvCheckDelayedTasks looks no further than the first task of the current
   delay list whose time has not come. *)
HeadIsDue ==
  /\ ~IsEmpty(store, pxDelayedTaskList)
  /\ xTickCount >= xItemValue[OwnerOfHead(store, pxDelayedTaskList)]

WakeHead ==
  /\ phase \in {"tickWake", "replayWake"}
  /\ HeadIsDue
  /\ LET t == OwnerOfHead(store, pxDelayedTaskList)
     IN  /\ AddTaskToReadyQueue(RemoveEventIfLinked(RemoveGeneric(store, t), t),
                                t, uxPriority[t])
         /\ EndDelay(t)
  /\ UNCHANGED <<tickVars, taskVars, suspendVars, loopVars, runVars, pc,
                 yieldPending, queueLock>>

(* The tick interrupt ends; with preemption the port requests a switch. *)
TickInterruptDone ==
  /\ phase = "tickWake"
  /\ ~HeadIsDue
  /\ phase' = "run"
  /\ yieldPending' = TRUE
  /\ UNCHANGED <<tickVars, listVars, delayVars, taskVars, suspendVars,
                 yieldRequired, runVars, pc, queueLock>>

ReplayTickDone ==
  /\ phase = "replayWake"
  /\ ~HeadIsDue
  /\ phase' = "replay"
  /\ uxMissedTicks' = uxMissedTicks - 1
  /\ UNCHANGED <<tickVars, listVars, delayVars, taskVars, uxSchedulerSuspended,
                 xMissedYield, yieldRequired, runVars, pc, yieldPending,
                 queueLock>>

(* No tick is left to replay: xTaskResumeAll yields when it has to, and says so
   to its caller. *)
ResumeAllDone ==
  /\ phase = "replay"
  /\ TicksReplayed
  /\ LET yields == yieldRequired \/ xMissedYield
     IN  /\ yieldPending' = (yieldPending \/ yields)
         /\ xMissedYield' = (xMissedYield /\ ~yields)
         /\ Goto(pxCurrentTCB, AfterResumeAll(pc[pxCurrentTCB], yields))
  /\ phase' = "run"
  /\ yieldRequired' = FALSE
  /\ UNCHANGED <<tickVars, listVars, delayVars, taskVars, uxSchedulerSuspended,
                 uxMissedTicks, runVars, queueLock>>

-----------------------------------------------------------------------------
(* vTaskSwitchContext, run by the port when a switch is pending.  The search
   for a ready list that is not empty counts uxTopReadyPriority down; where no
   list up to it holds a task the count would wrap and index outside
   pxReadyTasksLists: there the model has no step, and ReadyCache is violated. *)

(* Mutated form: a switch in spite of the suspension. *)
SwitchAllowed_Always == InterruptsEnabled /\ yieldPending

SwitchAllowed == InterruptsEnabled /\ yieldPending /\ uxSchedulerSuspended = 0

ReadyAt(p) == ~IsEmpty(store, pxReadyTasksLists(p))

SwitchMissed ==
  /\ InterruptsEnabled
  /\ yieldPending
  /\ uxSchedulerSuspended > 0
  /\ xMissedYield' = TRUE
  /\ yieldPending' = FALSE
  /\ UNCHANGED <<tickVars, listVars, delayVars, taskVars, uxSchedulerSuspended,
                 uxMissedTicks, loopVars, runVars, pc, queueLock>>

SwitchContext ==
  /\ SwitchAllowed
  /\ \E p \in 0 .. uxTopReadyPriority :
        /\ ReadyAt(p)
        /\ \A q \in p + 1 .. uxTopReadyPriority : ~ReadyAt(q)
        /\ uxTopReadyPriority' = p
        /\ pxCurrentTCB' = OwnerOfHead(store, pxReadyTasksLists(p))
        /\ store' = NextEntry(store, pxReadyTasksLists(p))
  /\ yieldPending' = FALSE
  /\ UNCHANGED <<tickVars, delayVars, taskVars, suspendVars, loopVars,
                 xSchedulerRunning, pc, queueLock>>

-----------------------------------------------------------------------------
(* Task control *)

(* vTaskSuspend( t ), called by c. *)
SuspendTask(c, t) ==
  /\ "vTaskSuspend" \in Include
  /\ RunsApp(c)
  /\ t \in Live
  /\ t = c => uxSchedulerSuspended = 0
  /\ store' = InsertEndGeneric(RemoveEventIfLinked(RemoveGeneric(store, t), t),
                               xSuspendedTaskList, t)
  /\ EndDelay(t)
  /\ Goto(c, IF t = c THEN "yield" ELSE "app")
  /\ UNCHANGED <<uxTopReadyPriority, tickVars, taskVars, suspendVars, loopVars,
                 runVars, yieldPending, queueLock>>

(* vTaskResume( t ), called by c. *)
ResumeTask(c, t) ==
  /\ "vTaskSuspend" \in Include
  /\ RunsApp(c)
  /\ t \in Live \ {c}
  /\ IsTaskSuspended(t)
  /\ AddTaskToReadyQueue(RemoveGeneric(store, t), t, uxPriority[t])
  /\ yieldPending' = (uxPriority[t] >= uxPriority[c])
  /\ UNCHANGED <<tickVars, delayVars, taskVars, suspendVars, loopVars, runVars,
                 pc, queueLock>>

(* xTaskResumeFromISR; the interrupt requests a switch as it was told. *)
ResumeFromISR(t) ==
  /\ {"vTaskSuspend", "xTaskResumeFromISR"} \subseteq Include
  /\ InterruptsEnabled
  /\ t \in Live
  /\ IsTaskSuspended(t)
  /\ IF ListsAccessible
     THEN /\ yieldPending' =
                (yieldPending \/ uxPriority[t] >= uxPriority[pxCurrentTCB])
          /\ AddTaskToReadyQueue(RemoveGeneric(store, t), t, uxPriority[t])
     ELSE /\ store' = InsertEndEvent(store, xPendingReadyList, t)
          /\ UNCHANGED <<uxTopReadyPriority, yieldPending>>
  /\ UNCHANGED <<tickVars, delayVars, taskVars, suspendVars, loopVars, runVars,
                 pc, queueLock>>

(* vTaskPrioritySet( t, p ), called by c: a task in a ready list moves to the
   list of its new priority; one that is blocked only has its values changed. *)
PrioritySet(c, t, p) ==
  LET old == uxPriority[t]
      new == Capped(p)
  IN  /\ "vTaskPrioritySet" \in Include
      /\ RunsApp(c)
      /\ t \in Live
      /\ new # old
      /\ uxPriority' = [uxPriority EXCEPT ![t] = new]
      /\ IF store.generic[t] = pxReadyTasksLists(old)
         THEN AddTaskToReadyQueue(RemoveGeneric(store, t), t, new)
         ELSE UNCHANGED listVars
      /\ yieldPending' = (IF new > old THEN t # c ELSE t = c)
  /\ UNCHANGED <<tickVars, delayVars, allocated, uxTopUsedPriority,
                 uxCurrentNumberOfTasks, uxTasksDeleted, suspendVars, loopVars,
                 runVars, pc, queueLock>>

(* Mutated form: the deletion is not counted. *)
Terminate_Uncounted(t) ==
  /\ store' = InsertEndGeneric(RemoveEventIfLinked(RemoveGeneric(store, t), t),
                               xTasksWaitingTermination, t)
  /\ UNCHANGED uxTasksDeleted

(* A deleted task leaves its lists for the termination list, and is counted for
   the idle task. *)
Terminate(t) ==
  /\ store' = InsertEndGeneric(RemoveEventIfLinked(RemoveGeneric(store, t), t),
                               xTasksWaitingTermination, t)
  /\ uxTasksDeleted' = uxTasksDeleted + 1

(* vTaskDelete( t ), called by c. *)
DeleteTask(c, t) ==
  /\ "vTaskDelete" \in Include
  /\ RunsApp(c)
  /\ t \in Live
  /\ t = c => uxSchedulerSuspended = 0
  /\ Terminate(t)
  /\ EndDelay(t)
  /\ Goto(c, IF t = c THEN "yield" ELSE "app")
  /\ UNCHANGED <<uxTopReadyPriority, tickVars, allocated, uxPriority,
                 uxTopUsedPriority, uxCurrentNumberOfTasks, suspendVars,
                 loopVars, runVars, yieldPending, queueLock>>

-----------------------------------------------------------------------------
(* prvIdleTask and prvCheckTasksWaitingTermination *)

IdleSuspend ==
  /\ RunsAt(Idle, "app")
  /\ uxTasksDeleted > 0
  /\ SuspendAll(Idle, "reapRead")
  /\ UNCHANGED queueLock

IdleReadList ==
  /\ RunsAt(Idle, "reapRead")
  /\ Goto(Idle, IF IsEmpty(store, xTasksWaitingTermination)
                THEN "reapEmpty" ELSE "reapFull")
  /\ UNCHANGED <<tickVars, listVars, delayVars, taskVars, suspendVars,
                 loopVars, runVars, yieldPending, queueLock>>

(* Later, in a critical section: deleted task t is unlinked, then freed. *)
Reap(t) ==
  /\ RunsAt(Idle, "reap")
  /\ store' = RemoveGeneric(store, t)
  /\ allocated' = allocated \ {t}
  /\ uxCurrentNumberOfTasks' = uxCurrentNumberOfTasks - 1
  /\ uxTasksDeleted' = uxTasksDeleted - 1
  /\ Goto(Idle, "idleYield")
  /\ UNCHANGED <<uxTopReadyPriority, tickVars, delayVars, uxPriority,
                 uxTopUsedPriority, suspendVars, loopVars, runVars,
                 yieldPending, queueLock>>

(* It is the head of the termination list. *)
IdleReap ==
  /\ ~IsEmpty(store, xTasksWaitingTermination)
  /\ Reap(OwnerOfHead(store, xTasksWaitingTermination))

(* The idle task yields to the tasks that share its priority; else it starts
   its loop again. *)
IdleLoop ==
  /\ \/ RunsAt(Idle, "idleYield")
     \/ RunsAt(Idle, "app") /\ uxTasksDeleted = 0
  /\ yieldPending' = (Len(store.ring[pxReadyTasksLists(0)]) > 1)
  /\ Goto(Idle, "app")
  /\ UNCHANGED <<tickVars, listVars, delayVars, taskVars, suspendVars,
                 loopVars, runVars, queueLock>>

-----------------------------------------------------------------------------
Boot == \/ \E t \in Task, p \in RequestedPriority : CreateBeforeStart(t, p)
        \/ StartScheduler

(* What a task does inside an API call it has begun. *)
CallStep(t) ==
  \/ YieldWithinAPI(t)
  \/ DelayUnlink(t) \/ UntilDecide(t) \/ DelayInsert(t)
  \/ PlaceEventItem(t) \/ PlaceUnlink(t) \/ PlaceInsert(t) \/ QueueUnlock(t)
  \/ ResumeAll(t)

(* The calls an application task may make. *)
Call(t) ==
  \/ \E u \in Task, p \in RequestedPriority : CreateTask(t, u, p)
  \/ AppSuspendAll(t)
  \/ TaskYield(t)
  \/ DelayZero(t) \/ DelaySuspend(t) \/ DelayUntilSuspend(t)
  \/ \E e \in Event : QueueSuspend(t, e) \/ TaskSignals(t, e)
  \/ \E u \in Task : SuspendTask(t, u) \/ ResumeTask(t, u) \/ DeleteTask(t, u)
  \/ \E u \in Task, p \in RequestedPriority : PrioritySet(t, u, p)

IdleStep == IdleSuspend \/ IdleReadList \/ IdleReap \/ IdleLoop

(* The masked loops, whichever task or interrupt runs them. *)
MaskedStep ==
  \/ DrainPending \/ DrainDone
  \/ ReplayTick \/ ReplayTickDone \/ ResumeAllDone
  \/ WakeHead \/ TickInterruptDone

TickISR == TickInterrupt \/ TickInterruptMissed

OtherISR ==
  \/ \E t \in Task : ResumeFromISR(t)
  \/ \E e \in Event : InterruptSignals(e) \/ InterruptSignalsLocked(e)

Switch == SwitchContext \/ SwitchMissed

Next ==
  \/ Boot
  \/ \E t \in TCB : CallStep(t)
  \/ \E t \in Task : Call(t)
  \/ IdleStep
  \/ MaskedStep
  \/ TickISR
  \/ OtherISR
  \/ Switch

Spec == Init /\ [][Next]_vars

-----------------------------------------------------------------------------
(* Safety *)

(* The lists and the pvContainer fields agree, whatever the interleaving: no
   vListRemove of this code ever unlinks from a list the item is not in. *)
StoreConsistent == StoreOK(store)

(* A task that has taken itself off every list, on its way to another one. *)
BetweenLists(t) == pc[t] \in {"insert", "placeInsert"}

Blocked(t) == Delayed(t) \/ store.generic[t] = xSuspendedTaskList

(* A task whose TCB is allocated is in one scheduler list, and in a ready list
   only in that of its present priority (vTaskPrioritySet moves it); a task
   that is not, or was freed by the idle task, is in no list at all. *)
Placement ==
  \A t \in TCB :
    IF t \in allocated
    THEN IF BetweenLists(t)
         THEN store.generic[t] = NULL
         ELSE store.generic[t] \in
                DelayLists \cup {pxReadyTasksLists(uxPriority[t]),
                                 xSuspendedTaskList, xTasksWaitingTermination}
    ELSE store.generic[t] = NULL /\ store.event[t] = NULL

(* A task waits for an event, or is held in the pending list, only while it is
   blocked: a task that is ready, running or deleted left its event list,
   whether the event, its timeout, vTaskSuspend or vTaskDelete got it first.
   The one exception is a task in the middle of vTaskPlaceOnEventList. *)
EventPlacement ==
  \A t \in TCB :
    store.event[t] # NULL =>
       Blocked(t) \/ pc[t] \in {"placeGeneric", "placeInsert"}

(* vTaskSuspendAll excludes: a task between vTaskSuspendAll and xTaskResumeAll
   of a kernel function is the running one, and it is alone. *)
SchedulerLock ==
  \A t \in TCB :
    pc[t] \in WindowPoints =>
      /\ t = pxCurrentTCB
      /\ phase = "run" => uxSchedulerSuspended = 1

(* Nothing that came while the scheduler was suspended is left behind when it
   runs again: no readied task, no tick, no yield. *)
NothingHeldBack ==
  uxSchedulerSuspended = 0 /\ phase = "run" =>
    /\ IsEmpty(store, xPendingReadyList)
    /\ uxMissedTicks = 0
    /\ ~xMissedYield

(* uxTopReadyPriority is never below a ready list that holds a task, and some
   list up to it holds one: the search of vTaskSwitchContext finds the highest
   ready priority and stops before it wraps. *)
ReadyCache ==
  xSchedulerRunning =>
    /\ \A p \in Priority : ReadyAt(p) => p <= uxTopReadyPriority
    /\ \E p \in Priority : ReadyAt(p)

(* Whenever a task makes a step of its own with no switch pending and the
   scheduler not suspended, it is ready and no ready task has a higher
   priority: every event that readies a task requests the switch it needs. *)
DispatchSettled ==
  InterruptsEnabled /\ ~yieldPending /\ uxSchedulerSuspended = 0
    /\ pc[pxCurrentTCB] # "yield" =>
       /\ store.generic[pxCurrentTCB] = pxReadyTasksLists(uxPriority[pxCurrentTCB])
       /\ \A p \in Priority : ReadyAt(p) => p <= uxPriority[pxCurrentTCB]

(* The wake times that prvCheckDelayedTasks compares are right across a wrap of
   the tick count: each delay list is sorted, the current one holds exactly the
   tasks that wake before the wrap, and each task the ticks it asked for. *)
DelayListsOrdered ==
  /\ pxDelayedTaskList # pxOverflowDelayedTaskList
  /\ \A l \in DelayLists :
        \A i, j \in 1 .. Len(store.ring[l]) :
           i < j => xItemValue[store.ring[l][i]] <= xItemValue[store.ring[l][j]]
  /\ \A t \in TCB : Delayed(t) =>
        /\ (xTickCount + ticksLeft[t]) % TickCount = xItemValue[t]
        /\ store.generic[t] = IF xTickCount + ticksLeft[t] < TickCount
                              THEN pxDelayedTaskList
                              ELSE pxOverflowDelayedTaskList

(* No delayed task is late: when the tick's work is done, every task still in a
   delay list has ticks left to sleep. *)
NeverLate == phase \in {"run", "replay"} =>
               \A t \in TCB : Delayed(t) => ticksLeft[t] > 0

(* No delayed task is early: the tick code wakes a task only when the ticks it
   asked for have passed, however many of them were replayed. *)
NeverEarly ==
  [][\A t \in TCB : phase \in {"tickWake", "replayWake"} /\ Delayed(t) =>
        store'.generic[t] = store.generic[t] \/ ticksLeft[t] = 0]_vars

(* "This ensures the tick count does not slip" (tasks.c:1144-1146): the ticks counted
   and those still to be replayed add up to the interrupts that came. *)
TicksNotLost ==
  (xTickCount + uxMissedTicks
     - (IF phase = "replayWake" THEN 1 ELSE 0)) % TickCount = ticksArrived

(* The counts the idle task trusts without a lock: uxTasksDeleted is the length
   of the termination list, which is not empty when the idle task unlinks its
   head; the number of tasks is right; the running task is never freed. *)
TaskCounts ==
  /\ uxTasksDeleted = Len(store.ring[xTasksWaitingTermination])
  /\ uxCurrentNumberOfTasks = Cardinality(allocated)
  /\ pc[Idle] \in {"reap", "reapFull"} =>
        ~IsEmpty(store, xTasksWaitingTermination)
  /\ xSchedulerRunning => pxCurrentTCB \in allocated

(* While the scheduler is suspended no interrupt moves a task between the lists
   of the scheduler: the task that suspended it has them to itself. *)
InterruptsKeepOff ==
  [][uxSchedulerSuspended > 0 /\ (TickISR \/ OtherISR \/ Switch) =>
        store'.generic = store.generic /\ pxCurrentTCB' = pxCurrentTCB]_vars

(* "The event list is sorted in priority order, so we can remove the first in
   the list" (tasks.c:1721). *)
EventListsOrdered ==
  \A e \in Event :
    LET waiting == store.ring[EventList(e)]
    IN  \A i, j \in 1 .. Len(waiting) :
           i < j => uxPriority[waiting[i]] >= uxPriority[waiting[j]]

-----------------------------------------------------------------------------
(* Liveness *)

(* The processor makes progress: a pending switch is taken, the masked loops go
   on, a tick interrupt the timer has latched is served, and between interrupts
   the running task makes steps, so that the calls it has begun end and an
   application that suspended the scheduler resumes it. *)
Fairness ==
  /\ WF_vars(MaskedStep)
  /\ WF_vars(Switch)
  /\ SF_vars(TickInterrupt)
  /\ \A t \in TCB : SF_vars(CallStep(t))
  /\ SF_vars(IdleStep)

FairSpec == Spec /\ Fairness

(* A task readied while the scheduler is suspended does not stay pending. *)
PendingEnds ==
  \A t \in TCB : store.event[t] = xPendingReadyList
                   ~> store.event[t] # xPendingReadyList

(* A delay ends. *)
DelayEnds == \A t \in TCB : Delayed(t) ~> ~Delayed(t)

=============================================================================

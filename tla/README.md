# The scheduler of FreeRTOS V6.1.1 in TLA+

A TLA+ model of the scheduler under `src/upstream/FreeRTOSV6.1.1/Source`
(`tasks.c`, `list.c` and their headers), model-checked with TLC and in part
proved with TLAPS. The repository adds to those upstream files a port contract
and a frozen configuration (`src/proof_port`), trace harnesses (`src/harness`)
and an Isabelle development of selected functions run in sequence
(`src/theories`, `src/docs`). This project looks at what that development leaves
out: the *interleavings* of tasks, interrupts and the idle task. It takes its
definitions from the C code alone.

Paths below are relative to `src/upstream/FreeRTOSV6.1.1/Source` unless they
begin with `src/`.

## 1. The system

| Component | State | Operations | Status |
|---|---|---|---|
| Linked lists (`list.c`, `list.h`) | `pxNext`, `pxPrevious`, `xItemValue`, `pvContainer` of an item; `pxIndex`, `uxNumberOfItems` of a list | `vListInsertEnd`, `vListInsert`, `vListRemove`, `listGET_OWNER_OF_NEXT_ENTRY`, `listGET_OWNER_OF_HEAD_ENTRY`, `listSET_LIST_ITEM_VALUE` | modelled |
| Task lists and control blocks (`tasks.c`) | ready lists by priority, two delay lists, suspended, termination and pending-ready lists, event lists; two items in each TCB | the list operations the other components combine | modelled |
| Task creation and start | `uxCurrentNumberOfTasks`, `uxTopUsedPriority`, `pxCurrentTCB`, `xSchedulerRunning` | `xTaskGenericCreate`, `prvAllocateTCBAndStack`, `vTaskStartScheduler` | modelled |
| Delays and the tick | `xTickCount`, `xNumOfOverflows`, `pxDelayedTaskList`, `pxOverflowDelayedTaskList` | `vTaskDelay`, `vTaskDelayUntil`, `vTaskIncrementTick`, `prvCheckDelayedTasks` | modelled |
| Scheduler suspension | `uxSchedulerSuspended`, `uxMissedTicks`, `xMissedYield` | `vTaskSuspendAll`, `xTaskResumeAll` | modelled |
| Dispatch | `uxTopReadyPriority`, `pxCurrentTCB` | `vTaskSwitchContext`, `prvAddTaskToReadyQueue` | modelled |
| Task control | `uxPriority` and the lists | `vTaskSuspend`, `vTaskResume`, `xTaskResumeFromISR`, `vTaskPrioritySet`, `vTaskDelete` | modelled, before and after the start |
| Event lists | the lists of waiters | `vTaskPlaceOnEventList`, `xTaskRemoveFromEventList`, `vTaskMissedYield` | modelled; the queue is external |
| Idle task | `uxTasksDeleted` | `prvIdleTask`, `prvCheckTasksWaitingTermination` | modelled |
| Port layer (`src/proof_port/scheduler`) | interrupt mask, critical nesting, requested yields | enter/exit critical (also `vTaskEnterCritical`, `vTaskExitCritical`), yield, mask from ISR | modelled |
| Time-out service | `xTimeOutType` | `vTaskSetTimeOutState`, `xTaskCheckForTimeOut` | modelled; the waiting queue operation is external |
| Mutex priority inheritance | `uxBasePriority` | `vTaskPriorityInherit`, `vTaskPriorityDisinherit` | modelled; the mutex is external |
| End and clean-up | the heap, `uxTopUsedPriority` | `vTaskEndScheduler`, `vTaskCleanUpResources` | modelled |
| Trace, statistics, stack checks | `pcTraceBuffer`, `uxPreviousTask`, `ulRunTimeCounter`, `ulTaskSwitchedInTime` | `vTaskStartTrace`, `ulTaskEndTrace`, `vTaskList`, `vTaskGetRunTimeStats`, the stack macros | partly: no text, no application tags |
| Trace harness (`src/harness/scheduler_trace.c`) | none | what it validates before and after a call | partly: its checks, not its scenarios |
| Configuration and MPU headers | none | declarations, `#define`s | not modelled: they select the code that is |
| Isabelle development, tooling | none | | not modelled: they are not part of the scheduler |

**How they interact.** There are four kinds of actor: application tasks, the
idle task, the tick interrupt and other interrupts. They share every list and
counter of `tasks.c`. Three mechanisms keep them apart.

1. *Critical sections* mask interrupts: nothing interleaves.
2. *`vTaskSuspendAll`* increments `uxSchedulerSuspended` and leaves interrupts
   on. The suspending task keeps the processor and works on the ready and delay
   lists step by step. Interrupts that come may put a task on the *pending-ready*
   list, count a *missed tick* or note a *missed yield*, and must touch nothing
   else.
3. *`xTaskResumeAll`* makes up for all three with interrupts masked: it moves the
   pending tasks, replays the ticks one by one, and yields if it has to.

A switch is only *requested* (`portYIELD`, or by an interrupt on return);
the port then calls `vTaskSwitchContext`, which picks the next task, or sets
`xMissedYield` when the scheduler is suspended.

**What is hard.** The protocol between a suspended scheduler and interrupts; the
two items of one task, in two lists at a time, either of which may be unlinked by
the tick, the event, `vTaskSuspend` or `vTaskDelete` first; wake times and two
delay lists across the wrap of the tick count; the cached top priority; requests
for a switch on the many paths that ready a task; counters the idle task reads
without a lock; what `main()` does before the start; a holder of a mutex whose
priority changes while it is ready, blocked or waiting. `PROJECT.json` lists the
hazards with their lines, and for each the properties that would catch it.

**What makes a component correct.**

* Lists: every list stays one ring; the operations do to the sequence of owners
  what `tasks.c` relies on, ascending order in a sorted list among it
  (`RingIntact`, `ImplementsListSpec`). The order that `list.h` documents is the
  other one (section 6).
* Task lists: `pvContainer` always names the list the item is in; every task is
  in the list its state calls for (`StoreConsistent`, `Placement`,
  `EventPlacement`).
* Delays: no task wakes early or late, across wraps and replays, and no tick is
  lost (`NeverEarly`, `NeverLate`, `DelayListsOrdered`, `TicksNotLost`,
  `DelayEnds`).
* Suspension: one task at a time is inside it, interrupts keep off, nothing is
  held back when it ends (`SchedulerLock`, `InterruptsKeepOff`,
  `NothingHeldBack`, `PendingEnds`).
* Dispatch: the task that runs is a ready one of the highest priority
  (`DispatchSettled`), and the search for it ends (`ReadyCache`).
* Idle task: what it reads without a lock is still true when it acts on it
  (`TaskCounts`).
* Port layer: the mask is right whatever nests or switches (`MaskExact`), and
  suspension is a lock though the increment is two accesses (`ImplementsLock`).
* Time-outs: a wait ends neither early nor late, over several looks and wraps
  (`NeverEarly`, `NeverLate`, `WaitEnds` of `TimeOut`).
* From start to end: the scheduler starts soundly whatever `main()` did before
  (`SoundAfterSetup`, `FaultsExplained`), no memory leaks, and the clean-up frees
  what it can see (`HeapBalanced`, `CleanUpComplete`).
* Inheritance: a holder has the priority of its waiters while it holds, and its
  own afterwards (`NoInversion`, `PriorityRestored`, `SettledButLowered`).
* Observation: what the facilities say is what happened (`TraceShowsRunning`,
  `RunTimeExact`, `ChecksReport`, `ReportComplete`), and but for reports the
  ready tasks of one priority keep their turns (`TurnsKept`).
* The harness's own conditions, in every state between two calls
  (`HarnessAccepts`).

## 2. The modules

```
  XList --implements--> ListSpec     PortLayer --implements--> SchedulerLock
    |                      |
 MCXList               ListView  <--  KernelLists  <--  Kernel     TimeOut
                                                          |
          +------------------+-------------------+--------+--------+
       Harness           Lifecycle             Mutex          Diagnostics
          |                                      |                 |
       MCKernel                               MCMutex        MCDiagnostics
```

| Module | Models |
|---|---|
| `ListView` | What a list operation does to the sequence of owners, read from the item after `pxIndex` round to `pxIndex`. |
| `XList` | `list.c` and `list.h` with their pointers, one action per function or macro. |
| `ListSpec` | The same lists as sequences, changed by the operators of `ListView`, `vListInsert` in ascending order: the abstract specification. `XList` implements it under the mapping `view[l] = ViewOf(l)`. |
| `KernelLists` | The *store*: the ring of every list of `tasks.c` and the `pvContainer` of the two items of every TCB, built from `ListView`. |
| `Kernel` | `tasks.c`: one action per API function, or per step of one that can be interrupted; interrupts, the masked loops, the switch, the idle task; the properties. |
| `Harness` | The conditions `scheduler_trace.c` validates, over `Kernel`'s state. |
| `PortLayer` | What `Kernel` takes for granted: critical sections, the mask, switches, and the two accesses of `++uxSchedulerSuspended`; ports that count nesting in the TCB, and the port contract. |
| `SchedulerLock` | Its abstract specification: a lock that its holder takes again, and nobody is dispatched while it is held. |
| `TimeOut` | The time-out service, with the true time beside the wrapped counters. |
| `Lifecycle` | `Kernel` with the API before the start, the heap, the end and the clean-up. |
| `Mutex` | `Kernel` with `configUSE_MUTEXES 1` and a mutex, external. |
| `Diagnostics` | `Kernel` with one of the observation facilities compiled in; each has a run of its own instance. |
| `MCXList`, `MCKernel`, `MCMutex`, `MCDiagnostics` | Symmetry and values for the small instances. |
| `ListViewProofs`, `XListProofs`, `KernelProofs`, `LifecycleProofs`, `MutexProofs`, `DiagnosticsProofs`, `PortLayerProofs`, `TimeOutProofs` | Theorems and proofs (section 5). |

The refinement is what makes it sound to use sequences in `Kernel`: `Kernel` is
written with the operators that `XList` is checked against.

### How `Kernel` corresponds to the code

`pc[t]` says where task *t* is. `"app"` is the application's own code; any other
point is inside an API function. `phase` says which masked loop the kernel is in.

| Code | Actions |
|---|---|
| `xTaskGenericCreate` | `CreateBeforeStart`, `CreateTask` (both `Create`) |
| `vTaskStartScheduler` | `StartScheduler` (with `Create(Idle, 0)`) |
| `vTaskDelay` | `DelayZero`; or `DelaySuspend`, `DelayUnlink`, `DelayInsert`, `ResumeAll` ..., `YieldWithinAPI` |
| `vTaskDelayUntil` | `DelayUntilSuspend`, `UntilDecide`, `DelayInsert`, `ResumeAll` ..., `YieldWithinAPI` |
| `vTaskPlaceOnEventList`, in a blocking queue call | `QueueSuspend`, `PlaceEventItem`, `PlaceUnlink`, `PlaceInsert`, `QueueUnlock`, `ResumeAll` ... |
| `xTaskRemoveFromEventList` | `TaskSignals`, `InterruptSignals`, `QueueUnlock` (all `RemoveFromEventList`) |
| `vTaskMissedYield` | in `QueueUnlock` |
| `vTaskSuspendAll` | `SuspendAll`, part of `AppSuspendAll`, `DelaySuspend`, `DelayUntilSuspend`, `QueueSuspend`, `IdleSuspend` |
| `xTaskResumeAll` | `ResumeAll`, then `DrainPending`\*, `DrainDone`, (`ReplayTick`, `WakeHead`\*, `ReplayTickDone`)\*, `ResumeAllDone` |
| `vTaskIncrementTick` from the timer | `TickInterrupt`, `WakeHead`\*, `TickInterruptDone`; or `TickInterruptMissed` |
| `vTaskSwitchContext` | `SwitchContext`, `SwitchMissed` |
| `vTaskSuspend`, `vTaskResume`, `xTaskResumeFromISR`, `vTaskPrioritySet`, `vTaskDelete` | `SuspendTask`, `ResumeTask`, `ResumeFromISR`, `PrioritySet`, `DeleteTask` |
| `prvIdleTask` | `IdleSuspend`, `IdleReadList`, `ResumeAll` ..., `IdleReap`, `IdleLoop` |

*Granularity.* A step of `Kernel` is a critical section, or one list operation
made with the scheduler suspended and interrupts on. The masked loops make one
iteration per step so that a property can look at every iteration; nothing
interleaves with them. A pending switch is taken before the running task's next
step (`Runs`), as the port does on return from the interrupt or at the yield.

*Faithfulness.* What the model abstracts, and why:

* Names, stacks, handles and messages are left out. Priorities and tick counts
  are numbers; the width of the tick count is `TickCount` (2^32 in the port), all
  arithmetic on it is modulo `TickCount`, and `portMAX_DELAY = TickCount - 1`.
* `xItemValue` of a generic item is kept at 0 while the item is not in a delay
  list. The code leaves the old value there and never reads it. An event item's
  value is a function of the priority (`EventItemValue`).
* `ticksLeft` and `ticksArrived` are history variables: no guard reads them.
* `++uxSchedulerSuspended` (`tasks.c:1102`) is one step here. That it may be is
  what `PortLayer` shows with the read and the write apart: a task that preempts
  between the two leaves the count as it found it.
* Critical sections are single steps, and a switch that is requested inside one
  is made after it. `PortLayer` has the other order too, where the port switches
  inside the section and the section ends when the task is back.
* The idle task reads `uxTasksDeleted` without a lock. It is the first step of
  `IdleSuspend` or `IdleLoop`; a task that preempts after the read can only
  increase the count, which the code tolerates, because the list is what
  decides later.
* Preconditions of the API are guards: a task that has the scheduler suspended
  calls no function that blocks (`MayBlock`; `include/task.h:856-859`), it calls
  no function on a deleted task's handle or on the idle task (`Live`), and an
  interrupt does not call functions for tasks. Anything else the application may
  do at any time.
* The queue is not in the repository. Its lock and its calls into `tasks.c` are
  external definitions, written from what the comments in `tasks.c` and `task.h`
  say the callers do: `vTaskPlaceOnEventList` is called with the scheduler
  suspended and the queue locked, `xTaskRemoveFromEventList` from a critical
  section or an interrupt.
* The configuration is that of `src/proof_port/scheduler/FreeRTOSConfig.h`:
  preemption on, no tick hook, `configIDLE_SHOULD_YIELD 1`, no mutexes (`Mutex`
  adds them) and no trace (`Diagnostics` does).
  The constant `Include` stands for the `INCLUDE_` flags; the theorems hold for
  every choice of it, the runs take those that matter to their question.
* No allocation fails in `Kernel`; `Lifecycle` has those that do. Nor does
  `Kernel` have the API before the start but for creation.
* A search of `vTaskSwitchContext` that would wrap below priority 0 has no step;
  `ReadyCache` says that never happens. `Lifecycle`, where it can happen before
  the start, stops at it as a fault.

### How the other modules correspond to the code

| Code | Module: actions |
|---|---|
| `vTaskSetTimeOutState`, `xTaskCheckForTimeOut` | `TimeOut`: `Begin` and `Noted` (its two reads), `CheckForTimeOut`; `TickInterrupt` |
| `eal6_port_enter_critical`, `eal6_port_exit_critical`, `vTaskEnterCritical`, `vTaskExitCritical` | `PortLayer`: `EnterCritical`, `ExitCritical` in `TaskEntersCritical`, `TaskExitsCritical`, `MainCritical`, `MainLeaves`, `ResumeAllEnters`, `ResumeAllLeaves` |
| `eal6_port_set_interrupt_mask_from_isr`, `eal6_port_clear_interrupt_mask_from_isr` | `PortLayer`: `InterruptMasks`, `InterruptUnmasks`, in interrupts that nest |
| `vTaskSuspendAll`, `xTaskResumeAll` | `PortLayer`: `SuspendAllReads`, `SuspendAllWrites`; `ResumeAllEnters`, `ResumeAllDecrements`, `ResumeAllLeaves` |
| API before the start | `Lifecycle`: `SetupCreate`, `SetupSuspend` (with `SwitchInSetup`), `SetupResume`, `SetupDelete`, `SetupPrioritySet`, `Start` |
| `prvAllocateTCBAndStack`, `prvDeleteTCB` | `Lifecycle`: `Allocate`, `AllocationFails`, `DeleteTCBs` in the actions that create, reap and clean up |
| `vTaskEndScheduler`, `vTaskCleanUpResources` | `Lifecycle`: `EndScheduler`, `CleanUpResources` |
| `vTaskPriorityInherit`, `vTaskPriorityDisinherit` | `Mutex`: `MutexInherit` in a blocking take (`MutexLook`, `MutexSuspend`, `MutexInherit`, `MutexPlace`, then `Kernel`), `MutexGive` (then `MutexGiven`) |
| `vTaskPrioritySet` with `uxBasePriority` | `Mutex`: `MutexPrioritySet` |
| `vTaskStartTrace`, `ulTaskEndTrace`, `vWriteTraceToBuffer` | `Diagnostics`: `StartTrace`, `EndTrace`, in `SwitchObserved` |
| run-time counters, stack macros | `Diagnostics`: in `SwitchObserved`; `ClockCounts` and `UseStack` are the hardware and the task |
| `vTaskList`, `vTaskGetRunTimeStats` | `Diagnostics`: `ReportSuspend`, `ReportStart`, `ReportList` for each list, `ReportResume` |

What these abstract:

* `TimeOut` has one caller; callers share nothing but the clock. `asked`,
  `waited`, `gap` and `overslept` are history (the bound `MaxGap` alone reads
  `gap`). A tick may come between any two steps, except
  between the two reads of `vTaskSetTimeOutState`, which its caller makes in a
  critical section. Ticks that `xTaskResumeAll` replays are ticks like others.
* `PortLayer` has no lists: whom a switch dispatches, and whether `xTaskResumeAll`
  has readied somebody, is chosen freely. Every behaviour of the real dispatch is
  among those.
* `Lifecycle` stops at a fault, since what follows one is undefined: following
  NULL, indexing `pxReadyTasksLists` below 0 (or above the top, after the
  wrap), running a task that is to be freed. A TCB and a stack take one block
  each. `vTaskEndScheduler` returns to `main()`, which is what
  `vTaskCleanUpResources` is for.
* `Mutex` follows `xQueueGenericReceive` and `xQueueGenericSend` as far as
  they call `tasks.c`: the first look in a critical section, then, with
  the scheduler suspended, inheritance and the event list. The queue's code is
  not in the repository. A task in a blocking take makes no other call.
* A creation that fails for want of a stack is one step of `Lifecycle`: the TCB
  that was allocated is freed in it, and no other task sees it meanwhile.
* `Diagnostics` has one facility at a time; they share no variable. The
  run-time counter counts as time passes, whatever runs. A report of run times
  keeps each count over `ulTotalRunTime` and leaves the text out. A report also
  walks the termination list and moves its `pxIndex`; the idle task takes the item
  behind the end marker all the same. So `ahead` keeps where in the view of that
  list the marker is, and `ReapHead` is `IdleReap` of the item behind it. A stack
  has the words in use (`stackLeft`), the words that still hold the fill bytes
  (`untouched`), and as history the worst it came to; a task may grow over words
  and write only some of them.
* `Harness` compares containers and orders. That a list is one ring with
  exact back pointers and count is `XList`'s question.

## 3. The runs

| Run | Instance | Distinct states | Question |
|---|---|---|---|
| `xlist` | 3 items; one ready list, one delay list; values 0..2 | 31 368 | Do the pointers stay rings, and do they implement the sequences? Is the sorted insertion right for equal values and for `portMAX_DELAY`? |
| `kernel_all` | 2 tasks, 1 event, 2 priorities, `TickCount` 4, nesting 2, 2 missed ticks; every function | 1 253 206 | Lists, cached priority, dispatch, counts, wake times across wraps, missed ticks and replays, nested suspensions: do they hold in every interleaving? Do interrupts keep off? Do the harness's checks hold between calls? |
| `kernel_live` | 2 tasks, 1 event, `FairSpec`; no priority is changed | 55 067 | Do pending tasks and delays end? Are those that wait in order? |
| `kernel_event_order` | 3 tasks, 1 event, `vTaskPrioritySet` | violation | Is the event list in priority order, as `tasks.c:1721` says? |
| `timeout` | `TickCount` 6, `OverflowCount` 3, up to 13 ticks between two looks, every block time | 113 934 | When does `xTaskCheckForTimeOut` tell the truth? |
| `port` | 3 tasks, suspension, sections and interrupts each nested twice, both ports | 157 602 | Is the mask exact, and suspension a lock? |
| `lifecycle` | 2 tasks, 2 priorities, a heap of 4, 5 or 6 blocks; delay, suspend, delete, priorities | 106 573 | From `main()` to the clean-up: faults, leaks, a sound start |
| `lifecycle_all_suspended` | 2 tasks | violation | Is `pxCurrentTCB` NULL where all tasks are suspended, as `tasks.c:465` says? |
| `mutex` | tasks of priority 0, 1 and 2, a mutex, `TickCount` 3, 2 changes of a priority or suspensions | 995 252 | Inheritance: is anyone inverted, and does the holder fall back? |
| `diagnostics` | trace, run times or stack checks; 2 tasks and the idle task of one priority, `TickCount` 2, a trace of 4 lines, a counter of 2 values, a stack and a margin of 2 words; delete | 831 977 | Is what trace and run times say true? Which tasks do the stack checks report? |
| `diagnostics_reports` | `vTaskList`; 2 tasks, 2 priorities, every function, 1 missed tick | 97 446 | Has every task one row, whatever comes during a report? Does each ready task keep its turn? |
| `diagnostics_trace_restart` | the trace; 2 tasks | violation | Does a trace show every switch, as `tasks.c:207-208` says? |

Every instance of the kernel has the idle task besides.

*Why the bounds are enough to be interesting.* Three items give a ring with an
item before, at and after the one `pxIndex` points to. Two tasks and the idle task
give a running task, one that is woken, and one to fall back on; they wait for one
event while the idle task runs and interrupts signal it. Two priorities separate
the idle one and a higher one; the run `mutex` takes the kernel through three tasks
and three priorities, and the theorems hold for any number. With `TickCount` 3 or 4
the tick wraps every few ticks, so both delay lists hold tasks at once, tasks are
due before, at and after the wrap, and `portMAX_DELAY` is a delay of its own.
Two missed ticks let the first replayed tick wrap the count and the second wake a
task from the list that has just become current. Nesting 2 is a decrement that
does not end the suspension. The instances keep no history but the two ghosts, so
all reachable states are explored: there is no bound on the length of a run. The
bounds are `MaxNesting`, `MaxMissedTicks`, `TickCount`, `OverflowCount`,
and the sizes of `Task`, `Event` and `configMAX_PRIORITIES`.

`OverflowCount` is 1 or 2 in the runs of the kernel, where nothing reads
`xNumOfOverflows`; `timeout`, which does, has 3. A gap of 13 ticks is more than two
full counts of 6: `NeverLate` is claimed for waits whose gaps are at most one, and
the run goes on to where the service can no longer tell. A heap of 4 blocks has room for
one task and the idle task, 5 leaves a stack that cannot be had beside its TCB,
and 6 has room for all. Three priorities are what an inversion needs; two
changes let a priority be set and a holder be suspended. A counter with two values
wraps with every second count; a trace of four lines fills after two. A stack of
two words, both within the margin of the second check, can be unused, within that
margin, and beyond its limit, written or not. The
facilities are split over two runs so that each has the functions that matter to it:
`vTaskList` meets suspended, delayed and deleted tasks, resumptions from interrupts
and a tick that it makes the kernel miss; the others look only at which task runs, and
meet creation, deletion and every order of turns of three tasks. The rows of
`vTaskGetRunTimeStats`, which walks the same lists, are covered by the theorem.
The further bounds are `MaxGap`, `MaxDepth`, `MaxSections`, `MaxInterrupts`,
`HeapSizes`, `MaxChanges`, `TraceLines`, `CounterCount`, `PartsOfTotal`,
`StackDepth` and `StackMargin`.

Application tasks are interchangeable (no action or property tells them apart), so
the safety runs use symmetry. `kernel_live` does not, because symmetry is unsound
for liveness; nor do the runs that look for a violation.

`CHECK_DEADLOCK` is on in every run but `lifecycle`: the idle task can always go
on. `Lifecycle` stops after the clean-up and at a fault.

*Mutants.* Next to the definition it would replace, a module holds the *mutated
form* of some definitions: a plausible slip of that code (a dropped test, an
off-by-one, a list chosen by the old priority). Every property of every passing
run is violated by one of them, which shows that the property depends on the code.
No action uses a mutated form.

## 4. Fairness

`FairSpec` assumes of the processor and the timer, never of the application's
choices:

* weak fairness of `MaskedStep` and `Switch`: the processor executes the loops and
  the switch it has begun; nothing can disable them;
* strong fairness of `TickInterrupt`: the timer's interrupt is latched, so a tick
  that arrives while interrupts are masked is served when they are enabled. Weak
  fairness would not do, as interrupts are masked again and again;
* strong fairness of `CallStep(t)` and `IdleStep`: between interrupts the running
  task makes steps. They are disabled while the task is not running, or a switch
  is pending. `CallStep` includes `ResumeAll`: an application that suspends the
  scheduler resumes it, which the API demands of it (the tick would not advance
  otherwise).

No fairness is assumed of `Call`: no application task need ever call anything, so
nothing is claimed about a low-priority task getting the processor.

`TimeOut` has a `FairSpec` of its own: weak fairness of `TickInterrupt`, `Noted`
and `CheckForTimeOut`. The timer ticks; a caller leaves the critical section it
has begun; and a caller that waits looks again, as its delay ends by a tick
(`DelayEnds`) and it then runs. Ticks stop being counted between two looks at
`MaxGap`, so the look is the only thing that can then come. The event that would
end the wait is nobody's duty, and `Over` is not fair.

## 5. What is proved

The theorems hold for every number of tasks, events and priorities, every width
of the tick count, all bounds, and every choice of `Include`. They rest on the
named assumptions of the modules they are about. For those that extend `Kernel`:
`PrioritiesAssumption`, `IdleAssumption`, `NullAssumption`,
`NullListAssumption` (the model values differ), `IncludeAssumption`, and
`CountAssumption` (numbers are numbers, a tick count has at least two values);
with `HeapAssumption` (a heap size is a number) for `Lifecycle`,
`MutexAssumption` (the priorities tasks are created with are priorities) for
`Mutex`, and `DiagnosticsAssumption` for `Diagnostics`. For `XList`: `ItemAssumption` (finitely
many items), `NodeAssumption` and `ListUseAssumption` (an item is not an end
marker, and how a list is used is said once), and `MaxDelayAssumption`.

| Theorem | Module | States |
|---|---|---|
| `ListTypes` | `XListProofs` | `Spec => []TypeOK` |
| `RingsStayIntact` | `XListProofs` | `Spec => []RingIntact` |
| `ListsImplementSequences` | `XListProofs` | `Spec => ImplementsListSpec`: the pointers of `list.c` implement the sequences that `Kernel` is written with. |
| `TypeCorrect` | `KernelProofs` | `Spec => []TypeOK`. Not by shape alone: priorities stay valid indices, and `uxSchedulerSuspended` and `uxMissedTicks` never go below zero, which needs `LockInv`. |
| `SuspensionExcludes` | `KernelProofs` | `Spec => []SchedulerLock` |
| `InterruptsExcluded` | `KernelProofs` | `Spec => InterruptsKeepOff`: an action property, from `TypeOK` alone. |
| `ListsConsistent` | `KernelProofs` | `Spec => []StoreConsistent` |
| `TasksPlaced` | `KernelProofs` | `Spec => []Placement` |
| `WaitersBlocked` | `KernelProofs` | `Spec => []EventPlacement` |
| `SearchFindsHighest` | `KernelProofs` | `Spec => []ReadyCache` |
| `HighestPriorityRuns` | `KernelProofs` | `Spec => []DispatchSettled` |
| `SuspensionLeavesNothing` | `KernelProofs` | `Spec => []NothingHeldBack` |
| `CountsExact` | `KernelProofs` | `Spec => []TaskCounts` |
| `WakeTimesOrdered` | `KernelProofs` | `Spec => []DelayListsOrdered` |
| `NobodyOversleeps` | `KernelProofs` | `Spec => []NeverLate` |
| `NobodyWakesEarly` | `KernelProofs` | `Spec => NeverEarly`, an action property |
| `NoTickLost` | `KernelProofs` | `Spec => []TicksNotLost` |
| `MostUrgentWaitsFirst` | `KernelProofs` | `Spec => []EventListsOrdered` where `vTaskPrioritySet` is left out; with it the property is false (section 6). |
| `HarnessHolds` | `KernelProofs` | `Spec => []HarnessAccepts`, with the place of a current task that is not ready |
| `DelayUntilDecides` | `KernelProofs` | no states: `ShouldDelay` of the wrapped times holds exactly if the time asked for is still ahead. |
| `StartsSound` | `LifecycleProofs` | `LifeSpec => []SoundAfterSetup` |
| `FaultsHaveCauses` | `LifecycleProofs` | `LifeSpec => []FaultsExplained` |
| `HeapAccounted` | `LifecycleProofs` | `LifeSpec => []HeapBalanced` |
| `CleanUpFreesRest` | `LifecycleProofs` | `LifeSpec => []CleanUpComplete` |
| `PlacedWithMutexes` | `MutexProofs` | `MutexSpec => []Placement` |
| `InheritanceEnds` | `MutexProofs` | `MutexSpec => []PriorityRestored` |
| `HighestRunsButLowered` | `MutexProofs` | `MutexSpec => []SettledButLowered` |
| `NobodyInverted` | `MutexProofs` | `MutexSpec => []NoInversion`, for one mutex |
| `TraceCorrect` | `DiagnosticsProofs` | `DiagnosticsSpec => []TraceShowsRunning` |
| `RunTimeCorrect` | `DiagnosticsProofs` | `DiagnosticsSpec => []RunTimeExact` |
| `ChecksReportThose` | `DiagnosticsProofs` | `DiagnosticsSpec => []ChecksReport` |
| `TurnsAreKept` | `DiagnosticsProofs` | `DiagnosticsSpec => TurnsKept`, an action property |
| `ReportsComplete` | `DiagnosticsProofs` | `DiagnosticsSpec => []ReportComplete`, rows of deleted tasks included |
| `CountCorrect` | `PortLayerProofs` | `Spec => [](TypeOK /\ CountExact)`: the suspension count is that of the calls the running task has not undone. |
| `LockImplemented` | `PortLayerProofs` | `Spec => ImplementsLock`: the port layer refines `SchedulerLock`. |
| `MaskCorrect` | `PortLayerProofs` | `Spec => []MaskExact` |
| `EndsNotEarly` | `TimeOutProofs` | `Spec => []NeverEarly` |
| `EndsInTime` | `TimeOutProofs` | `Spec => NeverLate` |

### The arguments

*Lists.* `ListViewProofs` proves what the operators on sequences return: which
elements, in which order, and that none comes twice. `XListProofs` starts from
pointers. The invariant `RingInv` says that for each list there is a sequence of
its nodes, ending with `pxIndex`, along which `pxNext` goes round and
`pxPrevious` back (`IsRing`), with the end marker in it: first in a list used
first in first out, last in a sorted one. What the functions of
`list.c` do to the links is first proved for links that are any functions:
`vListInsertEnd` appends, `vListInsert` puts the item at a place, `vListRemove`
takes one out, stepping `pxIndex` rotates. The view of `ListSpec` is the sequence
without the marker, so each step of `XList` is one of `ListSpec`. The
walks of the code (`ViewOf` counts steps along `pxNext`; `vListInsert` looks for the
last value not greater) are recursive functions. Since no induction theorem can
be instantiated here, facts about them are proved by a least counterexample:
the least number of steps for which the claim fails is not 0, and the number
before it does not fail.

*Types and the lock.* `KernelProofs` first lifts the operators to a store: each
list operation keeps `StoreOK`, provided the item is where the caller says. Then it
proves `TypeOK` and `LockInv` together. `SchedulerLock` alone
is not inductive: that a switch cannot find a task inside a window needs
`uxSchedulerSuspended = 1` there; that the masked loops cannot be entered with the
scheduler suspended is `MaskedUnsuspended`; that the tick's loop does not run in a
window is `TickOutsideWindows`; and that only the holder decrements the count is
`LockHolder`. Every action that starts or ends a suspension uses them.

*Placement.* Then `StoreInv`. The three list properties need each other: an
unlink is safe only if the item is in the list its `pvContainer` names
(`StoreConsistent`); *that* it is in one comes from `Placement`; and that the
tick may unlink both items of a task comes from `EventPlacement`. They also need
to know that the task that takes itself off the ready list *is* in one
(`RunningReady`), which is where preemption comes in: a task that has left the
ready list must not make another step before the switch; that a masked loop was
entered by the task that called `xTaskResumeAll` (`LoopCaller`); that the current
task is never freed under its own feet (`CurrentAllocated`); and that all tasks
are ready before the start (`ReadyBeforeStart`). The step lemmas follow the
disjuncts of `Next`: boot, calls, steps inside calls, the idle task, the masked
loops, interrupts and the switch.

*Dispatch.* Then `DispatchInv`, which says that the right task runs or that the
kernel knows it does not. For each action `Effect` says in a few words what it
does to a task (`Readied`, `Left`, `Reprioritised`, ...), and the parts of the
invariant are proved for those. `Cached`: no ready task is above
`uxTopReadyPriority`, so that the search meets the highest; `HeldBack`:
what interrupts left for `xTaskResumeAll` waits only while the scheduler is
suspended or `xTaskResumeAll` is at work; `IdleReady`: the idle task is ready at every point of its loop, so that the
search ends; `SwitchOwed`: the running task has the highest ready priority, or a
switch is noted (`xMissedYield`, `yieldPending`), or the running task is at a point
of a call from which it will yield (`YieldAhead`); `Counted`: the counts are the
cardinalities of what they count, by the library's theorems on finite sets, and
the list that the idle task has seen not empty is not emptied by another before
it takes the head.

*Time.* Then `DelayInv`. A wake time is the tick count plus
the ticks that are left, wrapped at most once, and its list is the overflow list
exactly if it is wrapped (`DelaysTimed`); the same holds of a task that has computed
it and not yet entered the list (`InsertTimed`), which holds because no tick is
counted while the scheduler is suspended; each list is sorted by wake time
(`DelaysSorted`), and a list keeps its order where its members' values do not
change; and outside the tick's loop nobody is due (`NoneDue`). When the count wraps
the current list is empty, because a task in it would be due; so the swap keeps
`ListsApart` and every list's meaning. `vTaskDelayUntil` sees only wrapped times; that it decides rightly from them
(`DelayUntilDecides`) is what lets its wake times into `DelaysTimed`. The provers have no theory of `%` by a
constant that is not a number: each wrapped sum is split into the case below
`TickCount` and the case above. For the event lists `EventsSorted` is inductive only
if priorities are kept. `HarnessAccepts` follows from all these: it compares the
running task with the highest ready priority, and it demands that a current task
which is not ready is owed a switch and sits where its call put it. The harness has one such
call, `vTaskDelay`, and demands a delay list (`scheduler_trace.c:574-581`);
`LeftReadyList` demands that of every task with a time to wake up at, and the
suspended or termination list of one without. That a task in a delay list has ticks
left is `NoneDue`, and that one with ticks left is in a delay
list or about to enter it is `TimersHeld`.

*Before the start and after the end.* In `LifecycleProofs` the invariant `LifeInv`
goes by stage. While `main` sets up its tasks `SetupCurrent` says which task
`pxCurrentTCB` names; it takes in the odd cases that `FaultsExplained` is about.
`uxTopReadyPriority` may be too high by then, because `vTaskSuspend` of the most
urgent task leaves it; so the parts of `DispatchInv` have a parameter that says
whether it must be exact, and the lemmas serve both `Kernel` and `Lifecycle`. Once
the scheduler runs, the invariant is that of `Kernel`, whose step lemmas are
cited. The heap is counted with cardinalities.

*Mutexes.* `MutexProofs` holds for any number of mutexes, nested as one likes, but for
`NobodyInverted`. The invariant is `Base`: the parts of the kernel's that do not depend on the order of
the event lists, and `MutexInv`. A step of `Mutex` is either one of `Kernel`'s, so
that the step lemmas of `KernelProofs` carry over (`KernelsMove`), or one of nine of
the mutex's own, each with a lemma. `MutexInv` says what ties the two together: a
task at the points `taken`, `inherit` and `place` is in a take (`TakersTake`); the
scheduler is suspended only by a task inside a call (`SuspendedInside`), so that the
holder that inherits is not between two lists; and nothing else runs between the two
halves of a give (`GivePhase`). For `PriorityRestored`
nothing else is needed, as disinheriting drops all that was inherited.
For `SettledButLowered` the invariant is that of the kernel's dispatch with one
exception more (`OwedButLowered`); the kernel's own steps preserve the
owed switch by `CallOwed`, and the exception does not outlast a switch because
`HighestRuns` is true right after it.

`NoInversion` alone is far from inductive: that the holder is more urgent than those
that wait depends on who can *become* the holder. `TakeInv` adds what is known while the
mutex is free. Whoever is in its event list is in a blocking take of it
(`WaitersTake`) and nobody waits for what it holds itself (`OtherHolds`), so the holder that
inherits is in no event list and its new value disturbs no order. The values of the
event items are those of the priorities (`ValuesUsed`) and the list is sorted by them
(`EventsSorted`), so a give readies the most urgent that waits. From then on
there is a `Successor` (`SuccessorReady`): a ready task that is taking the mutex and
prevails over all that still wait. Another task may take the mutex first, but only the
running one; and that one is at least as urgent as the successor, because the
highest ready priority runs (`Dispatched`) or, where a holder fell back and goes on
(`lowered`), because the give would have asked for a switch. `LoweredRuns` keeps that
exception apart: it is the running task, in its own code, and it alone may hold
the mutex. While the mutex is held, a task between `vTaskPriorityInherit` and
`vTaskPlaceOnEventList` counts as one that waits (`Contends`, `HolderRaised`), since the
mutex is not given meanwhile (`PlacersWait`). A task that is suspended in the middle
of its take may be the successor, and a priority that is set may be anyone's: that is
why `NoInversion` excepts both (`disturbed`). Of the kernel's own steps only two facts
are needed: nobody starts to wait, and nobody who is ready stops being ready but
to block or to be suspended (`KernelsLoosen`). TLC has checked `TakeInv` on the instance of
the run `mutex` before it was proved.

*Diagnostics.* Once the scheduler has started only a switch changes the running
task (`CurrentKept`). The last line of a trace and `uxPreviousTask` name the
same task while the trace goes on (`TraceInv`); the run times are exact
by a counter that wraps at most once in a sum (`TimeInv`, with the same split);
and what the stack checks would say of a task that does not run has been said
(`StackInv`: the fill bytes that were overwritten stay so, so a write into the last
words is still seen at the switch, however far the task has gone back).
The invariants of the kernel hold with reports as well (`KernelInv`). With them the order of
turns comes down to the list operations: `ViewInsertEnd`, `ViewRemove` and `ViewNext`
put nobody before a task that stays in its list, but for the one that `ViewNext` comes by;
every step is made of these, and a task that is moved never goes to the list it came from
(`MovedStep`). So each step but a switch keeps all turns (`OrderStep`), and a switch all but that
of the task it dispatches (`SwitchTurns`).
For a report `ReportInv` says that the reporter runs with the scheduler suspended
(`Reporting`) and which rows it has written so far (`RowsSoFar`): one for each task in a list
it has looked at. Meanwhile only interrupts act, and those leave every task in its
scheduler list and the order of the lists as they are (`KernelUndisturbed`, from
`InterruptKeepsOff`); no list comes twice in that order (`ReportOrderIs`, which needs the two
delay lists to differ), so no task gets a second row; and every task is in
one of them or above `uxTopUsedPriority` (from `Placement`, and from `UsedLists`: the
suspended and the termination list are empty where their functions are left out).
The walk of the termination list turns its view and leaves its members; the idle task
then frees one of them wherever it is (`ReapLists`, and in `KernelProofs` `ReapTypes`,
`ReapLock`, `ReapStore`, which hold of any task in that list).

*The port.* `PortLayerProofs` rests on `TCBAssumption` and `BoundAssumption` only. For the lock
the invariant is `CountExact`: `uxSchedulerSuspended = holds[pxCurrentTCB]`, and
every other task holds nothing. It is inductive with what a register means in
the middle of `++uxSchedulerSuspended`: `reg[t] = holds[t]` at the write. A task
that is switched out there had `holds[t] = 0`, because a switch needs a count of
0, and whoever runs meanwhile must be back at 0 before the next switch; so the
value it read is right again whenever it runs. Each step then maps to a step of
the lock or to a stutter. `MaskExact` alone is not inductive: that leaving a
section enables interrupts exactly when it is the last needs the counted
nesting to be that of the sections (`NestingExact`), per task where it is in the
TCB, of the running task where it is global, because such a port never switches
inside a section; and that the value an interrupt restores is the mask of what it
interrupted needs that interrupts nest only while none of them masks
(`InterruptsNest`).

*Time-outs.* `TimeOutProofs` assumes of the two counters only that each has at least two values
(`TickCountAssumption`, `OverflowAssumption`, `GapAssumption`). The invariant
`TimeInv` says what the wrapped numbers still tell. Up to one full count after the
time was noted the two counters determine how many ticks have passed (`GapTold`):
either the count has not wrapped, or it has wrapped once and the tick count has
not yet gone past the one that was noted. After that they may mislead, but only
towards waiting longer: what has been taken off the block time is never more than
was waited (`NotTooMuchOff`), which gives `NeverEarly`; and it is exactly that
where no gap was longer than a full count (`ExactlyOff`), which gives `NeverLate`.
That the two reads of `vTaskSetTimeOutState` belong to one tick is `SetMasked`.

### What is only model-checked

Every invariant and every action property of the passing runs is a theorem, with two
limits. `EventListsOrdered` of a system with `vTaskPrioritySet` is false. `NoInversion` needs
a single mutex: with two it is false, and TLC finds why in 24 steps: a task that holds both
and gives back one drops what it inherited for the other, and goes on. Liveness under
fairness (`PendingEnds`, `DelayEnds`, `WaitEnds`) stays with TLC for good: this
prover does not reach it, nor `ENABLED`. No module declares a RECURSIVE operator.

## 6. Findings

Three of these have a run that ends in a violation; the others were read in the
code and are stated here so that nothing that passes hides them.

*Sorted lists are ascending.* `list.h:255-256` documents `vListInsert` as
inserting "in a position determined by its item value (descending item value
order)", and `list.h:60-61` and `136-137` speak of descending order too. The code
inserts in ascending order (`list.c:150`), which is what `tasks.c` relies on and
what `list.h:201-202` itself says ("Lists are normally sorted in ascending item
value order"). `ListSpec` specifies the order of the code, and
`ImplementsListSpec` holds against those comments: a 1 inserted after a 0 ends up
behind it.

*Event lists lose their order.* `vTaskPrioritySet` gives the event item of a
waiting task a new value (`tasks.c:840`) and leaves the item where it is in the
sorted event list. `xTaskRemoveFromEventList` takes the head, because "The event
list is sorted in priority order" (`tasks.c:1721`). The run `kernel_event_order`
shows the list out of order after a priority of a waiting task has been raised:
the next event then goes to the wrong task.

*The current task is not NULL when all tasks are suspended.* Before the start
`vTaskSuspend` of the current task sets `pxCurrentTCB` to NULL only if it is the
only task there is (`tasks.c:914`); otherwise it calls `vTaskSwitchContext`, also
if all the others are suspended. `xTaskGenericCreate` goes by a NULL
`pxCurrentTCB` and says that it means "There are no other tasks, or all the other
tasks are in the suspended state" (`tasks.c:465-466`). The run
`lifecycle_all_suspended` suspends both of two tasks: the search of
`vTaskSwitchContext` goes below priority 0, and `pxCurrentTCB` stays on a suspended
task.

*A restarted trace can hide a switch.* `vTaskStartTrace` empties the buffer but
keeps `uxPreviousTask`, and `vWriteTraceToBuffer` writes no line for a task with that
number (`tasks.c:218`). If the trace is stopped while one task runs and started
again by another, the next switch to the first leaves no line, against
`tasks.c:207-208` and `task.h:1067-1068`. The run `diagnostics_trace_restart` ends with
an empty trace of a task that runs. Once a new trace has a line its last one is right
(`TraceShowsRunning`).

*Comments about interrupts.* `tasks.c:1223-1224` and `1287-1288` say of `vTaskList` and
`vTaskGetRunTimeStats` that they leave "interrupts disabled for a LONG time", and
`task.h:1012` and `1042` that they "will disable interrupts for its duration". The
code suspends the scheduler and leaves interrupts on, and so does `Diagnostics`, where
interrupts come between any two lists. No run is made of this: `ReportComplete` needs
no more than the suspension.

*The high-water mark wraps.* `usTaskCheckFreeStackSpace` counts free *bytes* in an
`unsigned short` and divides afterwards (`tasks.c:2182-2190`). With 65536 untouched
bytes or more the count wraps, so that a nearly untouched stack can report the small
number that `task.h:1105-1107` reserves for one about to overflow. This was read in
the code; the mark is not modelled.

*The stack checks see less than an overflow.* A task that goes beyond its limit and
back between two switches, and writes nothing into the last words, is not reported.
`StackMacros.h:68-69` says so ("does not guarantee that an overflowed stack will always
be recognised"), and `ChecksReport` claims no more.

What properties state with an exception is worth knowing too:
`vTaskCleanUpResources`, `vTaskList` and `vTaskGetRunTimeStats` miss ready tasks
above `uxTopUsedPriority`, which `vTaskPrioritySet` does not raise
(`CleanUpComplete`, `ReportComplete`); each such report moves the `pxIndex` of a
ready list one entry further than round, so that the task whose turn comes next
loses it, and one that reports in every time slice can keep a peer from the
"equal share" of `tasks.c:1634-1635` (`TurnsKept`); a task that gives back a mutex nobody waits
for goes on at its base priority, though a higher one may be ready, until
something else asks for a switch (`SettledButLowered`); a caller
that does not look for more than a full count of ticks may wait longer than it
asked for (`NeverLate` of `TimeOut`);
before the start, `vTaskResume` follows a NULL `pxCurrentTCB` and a deleted task
can be started (`FaultsExplained`); and a priority that is set, a take that is
suspended, or the first of two mutexes given back can leave a waiter inverted
(`NoInversion`).

## 7. Not modelled, and plan

Not modelled:

* *Queues and semaphores*: `queue.c` is not in the repository.
* *Configuration and MPU headers*: declarations and switches.
* *Application task tags* (`vTaskSetApplicationTaskTag`,
  `xTaskCallApplicationTaskHook`): a pointer that is stored and called; the
  scheduler never reads it.
* *Text*: names, the rows and percentages of reports, the bytes of a trace line.
* *The high-water mark* (`uxTaskGetStackHighWaterMark`): a count of untouched bytes
  that nothing else reads (section 6).
* *Scenarios of the harnesses*: they call on hand-built states the functions that
  `Kernel` and `XList` model.
* *The Isabelle development and tooling*.
* Nothing survives a restart of the processor, so there is no recovery to model.

Next:

1. *Round robin*: from `TurnsKept`, that a ready task of the top priority is
   dispatched again, under the fairness of the tick.

----------------------------- MODULE Diagnostics -----------------------------
(***************************************************************************)
(* The observation facilities of tasks.c, each compiled in by a switch of  *)
(* its own: the trace of context switches, the run-time statistics, the    *)
(* stack checks, and the reports vTaskList and vTaskGetRunTimeStats make   *)
(* of every list while the scheduler is suspended.  The rest is Kernel.  A *)
(* report moves pxIndex of each list it walks, and with it the view of the *)
(* list (ListView).  That is the order of a ready list.  Of the others the *)
(* idle task takes tasks from the head of the termination list, which is   *)
(* no longer the first of the view: ahead says where it is.  Of the delay  *)
(* lists only the order from the marker counts, and that of the suspended  *)
(* list is never used: their views stay.                                   *)
(***************************************************************************)
EXTENDS Kernel

CONSTANTS
  Facility,      \* those that may be compiled in, one at a time
  TraceLines,    \* ulBufferSize of vTaskStartTrace, in trace lines
  CounterCount,  \* number of values of the run-time counter (2^32 in the port)
  PartsOfTotal,  \* what a total run time is divided into (100 in the code)
  StackDepth,    \* words of a task's stack
  StackMargin    \* words at its end that the second stack check looks at

ASSUME DiagnosticsAssumption ==
  /\ Facility \subseteq {"trace", "stack", "list", "stats"}
  /\ TraceLines \in Nat \ {0}
  /\ CounterCount \in Nat \ {0}
  /\ PartsOfTotal \in Nat \ {0}
  /\ StackDepth \in Nat \ {0}
  /\ StackMargin \in 0 .. StackDepth

VARIABLES
  facility,              \* which of them is compiled in
  xTracing,
  trace,                 \* the lines from pcTraceBufferStart to pcTraceBuffer
  uxPreviousTask,        \* NULL: 255, which is no task's number yet
  clock,                 \* the hardware counter of the run-time statistics
  ulRunTimeCounter,
  ulTaskSwitchedInTime,
  ran,                   \* history: how long each task really ran
  stackLeft,             \* words from pxTopOfStack to the limit; 0: beyond it
  untouched,             \* words from the limit on that hold the fill bytes
  deepest,               \* history: the least stackLeft since the creation
  wroteEnd,              \* history: tasks that wrote into the last words
  overflowed,            \* tasks vApplicationStackOverflowHook was called for
  reporter,              \* the task in a report, or NULL
  ulTotalRunTime,
  reportAt,              \* the list the report looks at next, from 1 on
  report,                \* the rows written so far
  ahead                  \* items before the end marker in the view of
                         \* xTasksWaitingTermination

traceVars == <<xTracing, trace, uxPreviousTask>>
timeVars == <<clock, ulRunTimeCounter, ulTaskSwitchedInTime, ran>>
stackVars == <<stackLeft, untouched, deepest, wroteEnd, overflowed>>
reportVars == <<reporter, ulTotalRunTime, reportAt, report>>
dVars == <<vars, facility, traceVars, timeVars, stackVars, reportVars, ahead>>

DiagnosticsInit ==
  /\ Init
  /\ facility \in Facility
  /\ xTracing = FALSE /\ trace = <<>> /\ uxPreviousTask = NULL
  /\ clock = 0 /\ ulTaskSwitchedInTime = 0
  /\ ulRunTimeCounter = [t \in TCB |-> 0]
  /\ ran = [t \in TCB |-> 0]
  /\ stackLeft = [t \in TCB |-> StackDepth]
  /\ untouched = [t \in TCB |-> StackDepth]
  /\ deepest = [t \in TCB |-> StackDepth]
  /\ wroteEnd = {} /\ overflowed = {}
  /\ ahead = 0
  /\ reporter = NULL /\ ulTotalRunTime = 0 /\ reportAt = 0 /\ report = <<>>

-----------------------------------------------------------------------------
(* The trace *)

(* vTaskStartTrace empties the buffer; uxPreviousTask stays. *)
StartTrace(t) ==
  /\ facility = "trace"
  /\ RunsApp(t)
  /\ trace' = <<>>
  /\ xTracing' = TRUE
  /\ UNCHANGED <<vars, facility, uxPreviousTask, timeVars, stackVars,
                 reportVars, ahead>>

(* ulTaskEndTrace. *)
EndTrace(t) ==
  /\ facility = "trace"
  /\ RunsApp(t)
  /\ xTracing' = FALSE
  /\ UNCHANGED <<vars, facility, trace, uxPreviousTask, timeVars, stackVars,
                 reportVars, ahead>>

(* pcTraceBufferEnd is one line before the end of the buffer, and the line that
   is written must end before it. *)
TraceHasRoom == Len(trace) + 1 < TraceLines - 1

(* Mutated form: the task is noted whether or not its line is written. *)
WriteTraceToBuffer_NotedFirst ==
  IF xTracing /\ uxPreviousTask # pxCurrentTCB'
  THEN /\ uxPreviousTask' = pxCurrentTCB'
       /\ trace' = IF TraceHasRoom
                   THEN Append(trace, <<xTickCount, pxCurrentTCB'>>) ELSE trace
       /\ UNCHANGED xTracing
  ELSE UNCHANGED traceVars

(* vWriteTraceToBuffer, after the switch: a line where another task runs now;
   the trace stops at the first line that has no room. *)
WriteTraceToBuffer ==
  IF xTracing /\ uxPreviousTask # pxCurrentTCB'
  THEN IF TraceHasRoom
       THEN /\ uxPreviousTask' = pxCurrentTCB'
            /\ trace' = Append(trace, <<xTickCount, pxCurrentTCB'>>)
            /\ UNCHANGED xTracing
       ELSE /\ xTracing' = FALSE
            /\ UNCHANGED <<trace, uxPreviousTask>>
  ELSE UNCHANGED traceVars

-----------------------------------------------------------------------------
(* Run-time statistics *)

(* The counter of portGET_RUN_TIME_COUNTER_VALUE goes on whatever runs. *)
ClockCounts ==
  /\ facility = "stats"
  /\ xSchedulerRunning
  /\ clock' = (clock + 1) % CounterCount
  /\ ran' = [ran EXCEPT ![pxCurrentTCB] = (@ + 1) % CounterCount]
  /\ UNCHANGED <<vars, facility, traceVars, ulRunTimeCounter,
                 ulTaskSwitchedInTime, stackVars, reportVars, ahead>>

Elapsed == (clock + CounterCount - ulTaskSwitchedInTime) % CounterCount

(* Mutated form: the time is added to the task that is switched in. *)
AccountRunTime_Next ==
  /\ ulRunTimeCounter' = [ulRunTimeCounter EXCEPT
        ![pxCurrentTCB'] = (@ + Elapsed) % CounterCount]
  /\ ulTaskSwitchedInTime' = clock

(* The time since the last switch is added to the task that is switched out, in
   unsigned arithmetic. *)
AccountRunTime ==
  /\ ulRunTimeCounter' = [ulRunTimeCounter EXCEPT
        ![pxCurrentTCB] = (@ + Elapsed) % CounterCount]
  /\ ulTaskSwitchedInTime' = clock

-----------------------------------------------------------------------------
(* The stack *)

(* The running task's stack grows and shrinks.  It writes some of the words it
   grows over, never one it has not reached. *)
UseStack(t) ==
  /\ facility = "stack"
  /\ RunsApp(t)
  /\ \E left, clean \in 0 .. StackDepth :
       /\ clean \in Min({untouched[t], left}) .. untouched[t]
       /\ stackLeft' = [stackLeft EXCEPT ![t] = left]
       /\ untouched' = [untouched EXCEPT ![t] = clean]
       /\ deepest' = [deepest EXCEPT ![t] = Min({@, left})]
       /\ wroteEnd' = IF clean < StackMargin THEN wroteEnd \cup {t}
                      ELSE wroteEnd
  /\ UNCHANGED <<vars, facility, traceVars, timeVars, overflowed, reportVars,
                 ahead>>

(* taskFIRST_CHECK_FOR_STACK_OVERFLOW: the stack pointer is beyond the limit. *)
FirstCheckFails(t) == stackLeft[t] = 0

(* taskSECOND_CHECK_FOR_STACK_OVERFLOW: the last words do not hold the fill
   bytes any more. *)
SecondCheckFails(t) == untouched[t] < StackMargin

(* Mutated form: the checks come after the switch. *)
CheckForStackOverflow_After ==
  overflowed' =
    IF FirstCheckFails(pxCurrentTCB') \/ SecondCheckFails(pxCurrentTCB')
    THEN overflowed \cup {pxCurrentTCB'} ELSE overflowed

(* Both checks are made of the task that is switched out. *)
CheckForStackOverflow ==
  overflowed' =
    IF FirstCheckFails(pxCurrentTCB) \/ SecondCheckFails(pxCurrentTCB)
    THEN overflowed \cup {pxCurrentTCB} ELSE overflowed

-----------------------------------------------------------------------------
(* vTaskSwitchContext, with what each facility adds to it *)

SwitchObserved ==
  /\ SwitchContext
  /\ IF facility = "stats" THEN AccountRunTime
     ELSE UNCHANGED <<ulRunTimeCounter, ulTaskSwitchedInTime>>
  /\ IF facility = "stack" THEN CheckForStackOverflow ELSE UNCHANGED overflowed
  /\ IF facility = "trace" THEN WriteTraceToBuffer ELSE UNCHANGED traceVars
  /\ UNCHANGED <<facility, clock, ran, stackLeft, untouched, deepest, wroteEnd,
                 reportVars, ahead>>

-----------------------------------------------------------------------------
(* vTaskList and vTaskGetRunTimeStats *)

ReportSuspend(t) ==
  /\ facility \in {"list", "stats"}
  /\ RunsApp(t) /\ reporter = NULL
  /\ SuspendAll(t, "app")
  /\ reporter' = t
  /\ UNCHANGED <<queueLock, facility, traceVars, timeVars, stackVars,
                 ulTotalRunTime, reportAt, report, ahead>>

(* The running task is in a report, and the scheduler suspended. *)
Reports(t) == RunsApp(t) /\ reporter = t

(* A table of run times first reads the counter. *)
ReportStart(t) ==
  /\ Reports(t) /\ reportAt = 0
  /\ ulTotalRunTime' = clock \div PartsOfTotal
  /\ reportAt' = 1
  /\ UNCHANGED <<vars, facility, traceVars, timeVars, stackVars, reporter,
                 report, ahead>>

ReadyListsDown ==
  [i \in 1 .. uxTopUsedPriority + 1 |->
     pxReadyTasksLists(uxTopUsedPriority + 1 - i)]

Optional(function, l) == IF function \in Include THEN <<l>> ELSE <<>>

(* Mutated form: the overflow delay list is forgotten. *)
ReportOrder_OneDelayList ==
  ReadyListsDown
    \o <<pxDelayedTaskList>>
    \o Optional("vTaskDelete", xTasksWaitingTermination)
    \o Optional("vTaskSuspend", xSuspendedTaskList)

(* The lists in the order in which they are looked at: the ready lists down from
   uxTopUsedPriority, the delay lists, the termination list, the suspended
   list. *)
ReportOrder ==
  ReadyListsDown
    \o <<pxDelayedTaskList, pxOverflowDelayedTaskList>>
    \o Optional("vTaskDelete", xTasksWaitingTermination)
    \o Optional("vTaskSuspend", xSuspendedTaskList)

Status(l) == IF l \in ReadyLists THEN "ready"
             ELSE IF l \in DelayLists THEN "blocked"
             ELSE IF l = xTasksWaitingTermination THEN "deleted"
             ELSE "suspended"

(* prvListTaskWithinSingleList: a row for each owner that pxIndex comes by, from
   the second to the first. *)
ListTaskWithinSingleList(l) ==
  LET owners == NextEntry(store, l).ring[l]
  IN  [i \in DOMAIN owners |-> <<owners[i], Status(l)>>]

(* prvGenerateRunTimeStatsForTasksInList: the same walk; where the total is less
   than one part no share can be computed, and nothing is written. *)
GenerateRunTimeStatsForTasksInList(l) ==
  LET owners == NextEntry(store, l).ring[l]
  IN  IF ulTotalRunTime > 0
      THEN [i \in DOMAIN owners |->
              <<owners[i], ulRunTimeCounter[owners[i]] \div ulTotalRunTime>>]
      ELSE <<>>

(* The lists whose view a walk changes. *)
Turning == ReadyLists \cup {xTasksWaitingTermination}

Waiting == store.ring[xTasksWaitingTermination]

(* The end marker of the termination list in the view after a walk. *)
AheadAfterWalk == (ahead + Len(Waiting) - 1) % Len(Waiting)

(* A list that is not empty is walked round once and one entry further. *)
ReportList(t) ==
  /\ Reports(t) /\ reportAt \in 1 .. Len(ReportOrder)
  /\ LET l == ReportOrder[reportAt]
     IN  IF IsEmpty(store, l) THEN UNCHANGED <<store, report, ahead>>
         ELSE /\ report' = report \o
                   (IF facility = "list" THEN ListTaskWithinSingleList(l)
                    ELSE GenerateRunTimeStatsForTasksInList(l))
              /\ store' = IF l \in Turning THEN NextEntry(store, l) ELSE store
              /\ ahead' = IF l = xTasksWaitingTermination
                          THEN AheadAfterWalk ELSE ahead
  /\ reportAt' = reportAt + 1
  /\ UNCHANGED <<uxTopReadyPriority, tickVars, delayVars, taskVars, suspendVars,
                 loopVars, runVars, pc, yieldPending, queueLock, facility,
                 traceVars, timeVars, stackVars, reporter, ulTotalRunTime>>

(* Every list is done: xTaskResumeAll; what was written is the caller's. *)
ReportResume(t) ==
  /\ Reports(t) /\ reportAt > Len(ReportOrder)
  /\ ResumeAll(t)
  /\ reporter' = NULL /\ reportAt' = 0 /\ report' = <<>> /\ ulTotalRunTime' = 0
  /\ UNCHANGED <<facility, traceVars, timeVars, stackVars, ahead>>

-----------------------------------------------------------------------------
(* A task that is created has a number, a run time and a stack of its own, in
   the place of one that was deleted, or in a new one. *)
InitialiseTCBVariables ==
  LET made == allocated' \ allocated
      Anew(f, value) == [t \in TCB |-> IF t \in made THEN value ELSE f[t]]
  IN  /\ uxPreviousTask' =
            IF uxPreviousTask \in made THEN NULL ELSE uxPreviousTask
      /\ ulRunTimeCounter' = Anew(ulRunTimeCounter, 0) /\ ran' = Anew(ran, 0)
      /\ stackLeft' = Anew(stackLeft, StackDepth)
      /\ untouched' = Anew(untouched, StackDepth)
      /\ deepest' = Anew(deepest, StackDepth)
      /\ wroteEnd' = wroteEnd \ made /\ overflowed' = overflowed \ made

(* IdleReap, of the item behind the end marker wherever that is in the view. *)
ReapHead ==
  /\ Waiting # <<>>
  /\ Reap(Waiting[(ahead % Len(Waiting)) + 1])
  /\ ahead' = IF ahead < Len(Waiting) THEN ahead ELSE Len(Waiting) - 1

(* The kernel meanwhile; the reporter makes no other call. *)
KernelStep ==
  /\ \/ /\ \/ Boot
           \/ \E t \in TCB \ {reporter} : CallStep(t)
           \/ \E t \in Task \ {reporter} : Call(t)
           \/ IdleSuspend \/ IdleReadList \/ IdleLoop
           \/ MaskedStep
           \/ TickISR
           \/ OtherISR
           \/ SwitchMissed
        /\ UNCHANGED ahead
     \/ ReapHead
  /\ InitialiseTCBVariables
  /\ UNCHANGED <<facility, xTracing, trace, clock, ulTaskSwitchedInTime,
                 reportVars>>

DiagnosticsNext ==
  \/ KernelStep
  \/ SwitchObserved
  \/ ClockCounts
  \/ \E t \in Task :
       \/ StartTrace(t) \/ EndTrace(t)
       \/ UseStack(t)
       \/ ReportSuspend(t) \/ ReportStart(t) \/ ReportList(t) \/ ReportResume(t)

DiagnosticsSpec == DiagnosticsInit /\ [][DiagnosticsNext]_dVars

-----------------------------------------------------------------------------
(* "This trace shows which task is running when" (tasks.c:207-208): while the
   trace is on and has lines, the last one names the task that runs, however
   often it was stopped and started again, or found its buffer full.  Where it
   has none yet, a switch may have left none: see SwitchTraced. *)
TraceShowsRunning ==
  xTracing /\ trace # <<>> => trace[Len(trace)][2] = pxCurrentTCB

(* The same of a switch: "The trace logs the identity of which task is running
   when" (task.h:1067-1068), so a switch to another task, made while the trace
   is on and goes on, leaves a last line that names that task. *)
SwitchTraced ==
  [][SwitchContext /\ xTracing /\ xTracing' /\ pxCurrentTCB' # pxCurrentTCB =>
       /\ trace' # <<>>
       /\ trace'[Len(trace')][2] = pxCurrentTCB']_dVars

(* The run times are exact: what a task has been credited with, and for the
   running one the time since it was switched in, is the time it ran, modulo the
   counter; time spent with the scheduler suspended or in interrupts is the
   running task's, and a switch that is refused loses none. *)
RunTimeExact ==
  facility = "stats" =>
    \A t \in TCB :
      ran[t] = (ulRunTimeCounter[t]
                  + (IF t = pxCurrentTCB THEN Elapsed ELSE 0)) % CounterCount

(* What the two checks of a switch are worth.  They report no task that stayed
   clear of the end of its stack; and they report, at the latest when it stops
   running, a task that is beyond the limit then, and one that wrote into the
   last words at any time since its creation, though it went back long before
   the switch.  They promise no more: a task that goes beyond the limit and back
   between two switches and writes nothing there is missed, as StackMacros.h
   says ("does not guarantee that an overflowed stack will always be
   recognised", 68-69). *)
ChecksReport ==
  /\ \A t \in overflowed : deepest[t] = 0 \/ deepest[t] < StackMargin
  /\ \A t \in TCB \ {pxCurrentTCB} :
        stackLeft[t] = 0 \/ t \in wroteEnd => t \in overflowed

HasTurn(t, p) == store.generic[t] = pxReadyTasksLists(p)

(* In the ready list of priority p the turn of t comes before that of u. *)
TurnBefore(t, u, p) ==
  LET ring == store.ring[pxReadyTasksLists(p)]
  IN  \E i, j \in 1 .. Len(ring) : i < j /\ ring[i] = t /\ ring[j] = u

(* "so the tasks of the same priority get an equal share of the processor time"
   (tasks.c:1634-1635): whatever blocks, is suspended, readied, created or
   preempted in between, a task that stays ready is overtaken by no other of its
   priority, neither one that is ready already nor one that becomes so, unless
   it has had its turn.  A report is the exception: its walk moves pxIndex one
   entry further than round. *)
TurnsKept ==
  [][(\A r \in Task : ~ReportList(r)) =>
       \A p \in Priority, t, u \in TCB :
         /\ t # u
         /\ HasTurn(t, p) /\ HasTurn(t, p)' /\ HasTurn(u, p)'
         /\ HasTurn(u, p) => TurnBefore(t, u, p)
         => \/ TurnBefore(t, u, p)'
            \/ SwitchContext /\ pxCurrentTCB' = t]_dVars

(* vTaskList, vTaskGetRunTimeStats and vTaskCleanUpResources start at
   uxTopUsedPriority and miss a ready task that vTaskPrioritySet put above
   it. *)
Unlisted(t) == \E p \in uxTopUsedPriority + 1 .. configMAX_PRIORITIES - 1 :
                  HasTurn(t, p)

(* A finished report is one picture of all tasks, though interrupts, ticks and
   the readying of tasks go on while it is made: each task has one row, with the
   state it is in, except a ready task above uxTopUsedPriority. *)
ReportComplete ==
  reportAt > Len(ReportOrder) =>
    \A t \in allocated :
      LET rows == {i \in 1 .. Len(report) : report[i][1] = t}
      IN  CASE facility = "stats" /\ ulTotalRunTime = 0 -> rows = {}
            [] Unlisted(t) -> rows = {}
            [] OTHER -> \E i \in rows :
                 /\ rows = {i}
                 /\ facility = "list" => report[i][2] = Status(store.generic[t])

=============================================================================

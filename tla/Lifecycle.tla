------------------------------ MODULE Lifecycle ------------------------------
(***************************************************************************)
(* The scheduler from its static data to its end: what main() may do to    *)
(* its tasks before the start (vTaskSuspend, vTaskResume, vTaskDelete and  *)
(* vTaskPrioritySet take paths of their own there), the heap that creation *)
(* takes from and the idle task gives back to, vTaskEndScheduler, and the  *)
(* vTaskCleanUpResources that follows it.  While the scheduler runs this   *)
(* is Kernel.                                                              *)
(***************************************************************************)
EXTENDS Kernel

CONSTANT HeapSizes   \* sizes of the heap: a TCB or a stack takes one block

ASSUME HeapAssumption == HeapSizes \subseteq Nat

VARIABLES
  heapSize, heapUsed,
  stage,      \* "setup" (main before the start), "running", "ended", "cleaned"
  fault       \* "none", or the fault at which the model stops: "search"
              \* (vTaskSwitchContext left pxReadyTasksLists), "null" (NULL
              \* pxCurrentTCB was followed), "deleted" (the task that starts is
              \* a deleted one)

heapVars == <<heapSize, heapUsed>>
lifeVars == <<vars, heapVars, stage, fault>>

LifeInit ==
  /\ Init
  /\ heapSize \in HeapSizes
  /\ heapUsed = 0
  /\ stage = "setup"
  /\ fault = "none"

-----------------------------------------------------------------------------
(* prvAllocateTCBAndStack and prvDeleteTCB *)

Allocate == /\ heapUsed + 2 <= heapSize
            /\ heapUsed' = heapUsed + 2

(* Mutated form: the TCB is not freed when its stack cannot be had. *)
AllocationFails_Leaks ==
  /\ heapUsed + 2 > heapSize
  /\ heapUsed' = IF heapUsed < heapSize THEN heapUsed + 1 ELSE heapUsed

(* There is no room for a stack beside the TCB, or not even for the TCB: what
   was allocated is freed again. *)
AllocationFails == /\ heapUsed + 2 > heapSize
                   /\ heapUsed' = heapUsed

DeleteTCBs(tasks) == heapUsed' = heapUsed - 2 * Cardinality(tasks)

-----------------------------------------------------------------------------
(* main(), before it starts the scheduler *)

Setup == stage = "setup" /\ fault = "none"

SetupCreate(t, p) ==
  /\ Setup
  /\ CreateBeforeStart(t, p)
  /\ Allocate
  /\ UNCHANGED <<heapSize, stage, fault>>

(* A creation fails, that of the idle task included: then vTaskStartScheduler
   returns with nothing started. *)
SetupCreateFails ==
  /\ Setup
  /\ AllocationFails
  /\ UNCHANGED <<vars, heapSize, stage, fault>>

(* Mutated form: the search stops above the list of priority 0. *)
SwitchInSetup_AboveIdle(L) ==
  LET held == {p \in 1 .. uxTopReadyPriority :
                 ~IsEmpty(L, pxReadyTasksLists(p))}
  IN  IF held = {}
      THEN /\ fault' = "search"
           /\ store' = L
           /\ UNCHANGED <<uxTopReadyPriority, pxCurrentTCB>>
      ELSE /\ uxTopReadyPriority' = Max(held)
           /\ pxCurrentTCB' = OwnerOfHead(L, pxReadyTasksLists(Max(held)))
           /\ store' = NextEntry(L, pxReadyTasksLists(Max(held)))
           /\ UNCHANGED fault

(* vTaskSwitchContext, called by vTaskSuspend itself, the store being L. *)
SwitchInSetup(L) ==
  LET held == {p \in 0 .. uxTopReadyPriority :
                 ~IsEmpty(L, pxReadyTasksLists(p))}
  IN  IF held = {}
      THEN /\ fault' = "search"
           /\ store' = L
           /\ UNCHANGED <<uxTopReadyPriority, pxCurrentTCB>>
      ELSE /\ uxTopReadyPriority' = Max(held)
           /\ pxCurrentTCB' = OwnerOfHead(L, pxReadyTasksLists(Max(held)))
           /\ store' = NextEntry(L, pxReadyTasksLists(Max(held)))
           /\ UNCHANGED fault

(* vTaskSuspend: pxCurrentTCB must not be left on a suspended task. *)
SetupSuspend(t) ==
  /\ Setup
  /\ "vTaskSuspend" \in Include
  /\ t \in Live
  /\ LET unlinked == RemoveEventIfLinked(RemoveGeneric(store, t), t)
         moved == InsertEndGeneric(unlinked, xSuspendedTaskList, t)
     IN  IF t = pxCurrentTCB /\ uxCurrentNumberOfTasks # 1
         THEN SwitchInSetup(moved)
         ELSE /\ store' = moved
              /\ pxCurrentTCB' = IF t = pxCurrentTCB THEN NULL ELSE pxCurrentTCB
              /\ UNCHANGED <<uxTopReadyPriority, fault>>
  /\ UNCHANGED <<tickVars, delayVars, taskVars, suspendVars, loopVars,
                 xSchedulerRunning, pc, yieldPending, queueLock, heapVars,
                 stage>>

(* Mutated form: no switch is asked for. *)
SetupYield_Never(needed) == UNCHANGED yieldPending

(* portYIELD before the start: the port counts the request. *)
SetupYield(needed) == yieldPending' = (yieldPending \/ needed)

(* vTaskResume compares with the priority of pxCurrentTCB, be it NULL or not. *)
SetupResume(t) ==
  /\ Setup
  /\ "vTaskSuspend" \in Include
  /\ t \in Live \ {pxCurrentTCB}
  /\ IsTaskSuspended(t)
  /\ AddTaskToReadyQueue(RemoveGeneric(store, t), t, uxPriority[t])
  /\ IF pxCurrentTCB = NULL
     THEN fault' = "null" /\ UNCHANGED yieldPending
     ELSE /\ SetupYield(uxPriority[t] >= uxPriority[pxCurrentTCB])
          /\ UNCHANGED fault
  /\ UNCHANGED <<tickVars, delayVars, taskVars, suspendVars, loopVars, runVars,
                 pc, queueLock, heapVars, stage>>

(* vTaskDelete: where t is the current task, pxCurrentTCB stays on it. *)
SetupDelete(t) ==
  /\ Setup
  /\ "vTaskDelete" \in Include
  /\ t \in Live
  /\ Terminate(t)
  /\ UNCHANGED <<uxTopReadyPriority, tickVars, delayVars, allocated, uxPriority,
                 uxTopUsedPriority, uxCurrentNumberOfTasks, suspendVars,
                 loopVars, runVars, pc, yieldPending, queueLock, heapVars,
                 stage, fault>>

SetupPrioritySet(t, p) ==
  LET old == uxPriority[t]
      new == Capped(p)
  IN  /\ Setup
      /\ "vTaskPrioritySet" \in Include
      /\ t \in Live
      /\ new # old
      /\ uxPriority' = [uxPriority EXCEPT ![t] = new]
      /\ IF store.generic[t] = pxReadyTasksLists(old)
         THEN AddTaskToReadyQueue(RemoveGeneric(store, t), t, new)
         ELSE UNCHANGED listVars
      /\ SetupYield(IF new > old THEN t # pxCurrentTCB ELSE t = pxCurrentTCB)
      /\ UNCHANGED <<tickVars, delayVars, allocated, uxTopUsedPriority,
                     uxCurrentNumberOfTasks, uxTasksDeleted, suspendVars,
                     loopVars, runVars, pc, queueLock, heapVars, stage, fault>>

(* vTaskStartScheduler: the port starts the task pxCurrentTCB points to. *)
Start ==
  /\ Setup
  /\ StartScheduler
  /\ Allocate
  /\ stage' = "running"
  /\ fault' = IF store.generic[pxCurrentTCB'] = xTasksWaitingTermination
              THEN "deleted" ELSE "none"
  /\ UNCHANGED heapSize

-----------------------------------------------------------------------------
(* The scheduler runs *)

Running == stage = "running" /\ fault = "none"

RunningCreates(c, t, p) ==
  /\ Running
  /\ CreateTask(c, t, p)
  /\ Allocate
  /\ UNCHANGED <<heapSize, stage, fault>>

RunningCreateFails ==
  /\ Running
  /\ \E c \in Task : RunsApp(c)
  /\ AllocationFails
  /\ UNCHANGED <<vars, heapSize, stage, fault>>

RunningReap ==
  /\ Running
  /\ IdleReap
  /\ DeleteTCBs(allocated \ allocated')
  /\ UNCHANGED <<heapSize, stage, fault>>

RunningOther ==
  /\ Running
  /\ Next
  /\ allocated' = allocated
  /\ UNCHANGED <<heapVars, stage, fault>>

(* vTaskEndScheduler, called by a task: main() goes on. *)
EndScheduler(c) ==
  /\ Running
  /\ RunsApp(c)
  /\ xSchedulerRunning' = FALSE
  /\ stage' = "ended"
  /\ UNCHANGED <<tickVars, listVars, delayVars, taskVars, suspendVars, loopVars,
                 pxCurrentTCB, pc, yieldPending, queueLock, heapVars, fault>>

(* Mutated form: one priority is left out. *)
ListsCleanedUp_AllButOne ==
  {pxReadyTasksLists(p) : p \in 0 .. uxTopUsedPriority - 1}
    \cup DelayLists \cup {xSuspendedTaskList}

(* vTaskCleanUpResources empties the ready lists from uxTopUsedPriority down,
   both delay lists and the suspended list; it looks at no event list. *)
ListsCleanedUp ==
  {pxReadyTasksLists(p) : p \in 0 .. uxTopUsedPriority}
    \cup DelayLists \cup {xSuspendedTaskList}

CleanUpResources ==
  /\ stage = "ended"
  /\ LET freed == {t \in TCB : store.generic[t] \in ListsCleanedUp}
     IN  /\ store' = [store EXCEPT
               !.ring = [l \in Lists |->
                           IF l \in ListsCleanedUp THEN <<>> ELSE @[l]],
               !.generic = [t \in TCB |-> IF t \in freed THEN NULL ELSE @[t]]]
         /\ allocated' = allocated \ freed
         /\ DeleteTCBs(freed)
  /\ stage' = "cleaned"
  /\ UNCHANGED <<uxTopReadyPriority, tickVars, delayVars, uxPriority,
                 uxTopUsedPriority, uxCurrentNumberOfTasks, uxTasksDeleted,
                 suspendVars, loopVars, runVars, pc, yieldPending, queueLock,
                 heapSize, fault>>

-----------------------------------------------------------------------------
LifeNext ==
  \/ \E t \in Task, p \in RequestedPriority : SetupCreate(t, p)
  \/ SetupCreateFails
  \/ \E t \in Task : SetupSuspend(t) \/ SetupResume(t) \/ SetupDelete(t)
  \/ \E t \in Task, p \in RequestedPriority : SetupPrioritySet(t, p)
  \/ Start
  \/ \E c, t \in Task, p \in RequestedPriority : RunningCreates(c, t, p)
  \/ RunningCreateFails
  \/ RunningReap
  \/ RunningOther
  \/ \E c \in Task : EndScheduler(c)
  \/ CleanUpResources

LifeSpec == LifeInit /\ [][LifeNext]_lifeVars

-----------------------------------------------------------------------------
(* Every block of the heap in use is the TCB or the stack of a task that is
   still allocated: no path of a failing creation, of the idle task or of the
   clean-up leaks a block, or frees one twice. *)
HeapBalanced == heapUsed = 2 * Cardinality(allocated)

(* After vTaskCleanUpResources a task is still allocated only where the function
   does not look: deleted tasks the idle task did not get to, and ready tasks
   above uxTopUsedPriority, which vTaskPrioritySet does not raise. *)
CleanUpComplete ==
  stage = "cleaned" =>
    \A t \in TCB :
      t \in allocated <=>
        \/ store.generic[t] = xTasksWaitingTermination
        \/ \E p \in Priority : /\ p > uxTopUsedPriority
                               /\ store.generic[t] = pxReadyTasksLists(p)

(* Whatever main() did to its tasks before the start, the scheduler starts into
   a sound state: tasks are in the lists they belong to, the search finds the
   highest ready priority, and the task that runs has it or a switch is due.
   (Where that fails, the code has met one of the faults before.) *)
SoundAfterSetup ==
  stage = "running" /\ fault = "none" =>
    Placement /\ ReadyCache /\ DispatchSettled

(* The faults come of nothing else than main() having suspended every task, or
   having deleted the task that would start. *)
FaultsExplained ==
  /\ fault = "search" => \A p \in Priority : ~ReadyAt(p)
  /\ fault = "null" => uxCurrentNumberOfTasks = 1 /\ pxCurrentTCB = NULL
  /\ fault = "deleted" =>
       store.generic[pxCurrentTCB] = xTasksWaitingTermination

(* "There are no other tasks, or all the other tasks are in the suspended state
   - make this the current task." (tasks.c:465-466): before the start,
   pxCurrentTCB is NULL where all tasks are suspended. *)
NullWhenAllSuspended ==
  stage = "setup" /\ allocated # {}
    /\ (\A t \in allocated : store.generic[t] = xSuspendedTaskList)
      => pxCurrentTCB = NULL

=============================================================================

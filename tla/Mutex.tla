-------------------------------- MODULE Mutex --------------------------------
(***************************************************************************)
(* Priority inheritance: tasks.c with configUSE_MUTEXES 1.  Every task has *)
(* a base priority beside the one it uses, vTaskPriorityInherit lends the  *)
(* holder of a mutex the priority of a task that is about to wait for it,  *)
(* vTaskPriorityDisinherit takes it back, and vTaskPrioritySet changes the *)
(* base priority.  A mutex is a queue of one item, outside this            *)
(* repository: its calls into tasks.c are the external part.  Event is the *)
(* set of mutexes; everything else is Kernel.                              *)
(***************************************************************************)
EXTENDS Kernel

CONSTANTS
  StartPriority,  \* the priority each task is created with
  MaxChanges      \* bound: calls that set a priority or suspend a task

ASSUME MutexAssumption ==
  /\ StartPriority \in [Task -> RequestedPriority]
  /\ MaxChanges \in Nat

VARIABLES
  uxBasePriority,
  eventValue,      \* xItemValue of each event item: no longer a function of the
                   \* priority in use
  pxMutexHolder,
  taking,          \* the mutex each task is in a blocking take of, or NULL
  giving,          \* the mutex being given back, between the two halves of it
  changes,         \* history: calls that set a priority or suspended a task
  disturbed,       \* history: one of them set a priority, or suspended a task
                   \* in the middle of a blocking take
  lowered          \* history: a holder fell back to its base priority since the
                   \* last context switch

mutexVars == <<pxMutexHolder, taking, giving>>
historyVars == <<changes, disturbed, lowered>>
mVars == <<vars, uxBasePriority, eventValue, mutexVars, historyVars>>

MutexInit ==
  /\ Init
  /\ uxBasePriority = [t \in TCB |-> 0]
  /\ eventValue = [t \in TCB |-> configMAX_PRIORITIES]
  /\ pxMutexHolder = [m \in Event |-> NULL]
  /\ taking = [t \in Task |-> NULL]
  /\ giving = NULL
  /\ changes = 0
  /\ disturbed = FALSE
  /\ lowered = FALSE

-----------------------------------------------------------------------------
(* prvInitialiseTCBVariables of the task t that is created. *)
InitialisePriorities(t) ==
  /\ uxBasePriority' = [uxBasePriority EXCEPT ![t] = uxPriority'[t]]
  /\ eventValue' =
       [eventValue EXCEPT ![t] = configMAX_PRIORITIES - uxPriority'[t]]

MutexBoot ==
  /\ \/ \E t \in Task :
          CreateBeforeStart(t, StartPriority[t]) /\ InitialisePriorities(t)
     \/ StartScheduler /\ InitialisePriorities(Idle)
  /\ UNCHANGED <<mutexVars, historyVars>>

(* A task in a blocking take makes no other call until it has the mutex or its
   wait has timed out. *)
Idles(t) == taking[t] = NULL

(* The mutex is free: the running task takes it, in a critical section. *)
MutexTake(t, m) ==
  /\ MayBlock(t)
  /\ taking[t] \in {NULL, m}
  /\ pxMutexHolder[m] = NULL
  /\ pxMutexHolder' = [pxMutexHolder EXCEPT ![m] = t]
  /\ taking' = [taking EXCEPT ![t] = NULL]
  /\ UNCHANGED <<vars, uxBasePriority, eventValue, giving, historyVars>>

(* It is not, and the task means to wait: later, it suspends the scheduler and
   locks the queue.  The mutex may be given in between. *)
MutexLook(t, m) ==
  /\ MayBlock(t)
  /\ taking[t] \in {NULL, m}
  /\ pxMutexHolder[m] \notin {NULL, t}
  /\ taking' = [taking EXCEPT ![t] = m]
  /\ Goto(t, "taken")
  /\ UNCHANGED <<tickVars, listVars, delayVars, taskVars, suspendVars, loopVars,
                 runVars, yieldPending, queueLock, uxBasePriority, eventValue,
                 pxMutexHolder, giving, historyVars>>

MutexSuspend(t) ==
  /\ RunsAt(t, "taken")
  /\ SuspendAll(t, "inherit")
  /\ queueLock' = [queueLock EXCEPT ![taking[t]] = "locked"]
  /\ UNCHANGED <<uxBasePriority, eventValue, mutexVars, historyVars>>

(* Mutated form: a holder that is not ready inherits nothing. *)
Inherit_ReadyOnly(h) ==
  LET p == uxPriority[pxCurrentTCB]
  IN  IF /\ uxPriority[h] < p
         /\ store.generic[h] = pxReadyTasksLists(uxPriority[h])
      THEN /\ eventValue' = [eventValue EXCEPT ![h] = configMAX_PRIORITIES - p]
           /\ uxPriority' = [uxPriority EXCEPT ![h] = p]
           /\ AddTaskToReadyQueue(RemoveGeneric(store, h), h, p)
      ELSE UNCHANGED <<eventValue, uxPriority, listVars>>

(* vTaskPriorityInherit: h holds what the running task wants.  Ready, it moves
   to the list of the priority it inherits; blocked, only its values change. *)
Inherit(h) ==
  LET p == uxPriority[pxCurrentTCB]
  IN  IF uxPriority[h] < p
      THEN /\ eventValue' = [eventValue EXCEPT ![h] = configMAX_PRIORITIES - p]
           /\ uxPriority' = [uxPriority EXCEPT ![h] = p]
           /\ IF store.generic[h] = pxReadyTasksLists(uxPriority[h])
              THEN AddTaskToReadyQueue(RemoveGeneric(store, h), h, p)
              ELSE UNCHANGED listVars
      ELSE UNCHANGED <<eventValue, uxPriority, listVars>>

(* The scheduler suspended, the mutex is looked at again: it is held ... *)
MutexInherit(t) ==
  /\ RunsAt(t, "inherit")
  /\ pxMutexHolder[taking[t]] # NULL
  /\ Inherit(pxMutexHolder[taking[t]])
  /\ Goto(t, "place")
  /\ UNCHANGED <<tickVars, delayVars, allocated, uxTopUsedPriority,
                 uxCurrentNumberOfTasks, uxTasksDeleted, suspendVars, loopVars,
                 runVars, yieldPending, queueLock, uxBasePriority, mutexVars,
                 historyVars>>

(* ... or it is free, to be tried again, or the wait has timed out. *)
MutexLeave(t) ==
  /\ RunsAt(t, "inherit")
  /\ Goto(t, "unlock")
  /\ \/ pxMutexHolder[taking[t]] = NULL /\ UNCHANGED taking
     \/ taking' = [taking EXCEPT ![t] = NULL]
  /\ UNCHANGED <<tickVars, listVars, delayVars, taskVars, suspendVars, loopVars,
                 runVars, yieldPending, queueLock, uxBasePriority, eventValue,
                 pxMutexHolder, giving, historyVars>>

(* vTaskPlaceOnEventList: the event item goes in by the value it has. *)
MutexPlace(t) ==
  /\ RunsAt(t, "place")
  /\ store' = InsertEvent(store, EventList(taking[t]), eventValue, t)
  /\ Goto(t, "placeGeneric")
  /\ UNCHANGED <<uxTopReadyPriority, tickVars, delayVars, taskVars, suspendVars,
                 loopVars, runVars, yieldPending, queueLock, uxBasePriority,
                 eventValue, mutexVars, historyVars>>

(* Mutated form: the holder keeps the priority it inherited. *)
Disinherit_Not(t) == UNCHANGED <<listVars, uxPriority, eventValue, lowered>>

(* vTaskPriorityDisinherit: the running task, in the ready list of the priority
   it inherited, goes back to its base priority. *)
Disinherit(t) ==
  LET p == uxBasePriority[t]
  IN  IF uxPriority[t] # p
      THEN /\ AddTaskToReadyQueue(RemoveGeneric(store, t), t, p)
           /\ uxPriority' = [uxPriority EXCEPT ![t] = p]
           /\ eventValue' = [eventValue EXCEPT ![t] = configMAX_PRIORITIES - p]
           /\ lowered' = TRUE
      ELSE UNCHANGED <<listVars, uxPriority, eventValue, lowered>>

(* The holder gives the mutex back, in a critical section: first it loses what
   it inherited ... *)
MutexGive(t, m) ==
  /\ MayBlock(t) /\ Idles(t)
  /\ pxMutexHolder[m] = t
  /\ Disinherit(t)
  /\ pxMutexHolder' = [pxMutexHolder EXCEPT ![m] = NULL]
  /\ giving' = m
  /\ phase' = "give"
  /\ UNCHANGED <<tickVars, delayVars, allocated, uxTopUsedPriority,
                 uxCurrentNumberOfTasks, uxTasksDeleted, suspendVars,
                 yieldRequired, runVars, pc, yieldPending, queueLock,
                 uxBasePriority, taking, changes, disturbed>>

(* ... then the first task that waits is readied.  Only that asks for a switch:
   where none waits, a holder that fell back just goes on. *)
MutexGiven ==
  /\ phase = "give"
  /\ IF HasWaiter(giving)
     THEN /\ RemoveFromEventList(giving)
          /\ yieldPending' = UnblocksHigher(giving)
     ELSE UNCHANGED <<listVars, delayVars, yieldPending>>
  /\ giving' = NULL
  /\ phase' = "run"
  /\ UNCHANGED <<tickVars, taskVars, suspendVars, yieldRequired, runVars, pc,
                 queueLock, uxBasePriority, eventValue, pxMutexHolder, taking,
                 historyVars>>

(* Mutated form: the priority in use changes, inherited or not, and the task
   stays where it is in the ready lists. *)
UseNewPriority_Always(t, new) ==
  uxPriority' = [uxPriority EXCEPT ![t] = new]

(* "Only change the priority being used if the task is not currently using an
   inherited priority." *)
UseNewPriority(t, new) ==
  uxPriority' = IF uxBasePriority[t] = uxPriority[t]
                THEN [uxPriority EXCEPT ![t] = new] ELSE uxPriority

(* vTaskPrioritySet: what it compares with is the base priority. *)
MutexPrioritySet(c, t, p) ==
  LET old == uxBasePriority[t]
      new == Capped(p)
  IN  /\ "vTaskPrioritySet" \in Include
      /\ RunsApp(c) /\ Idles(c)
      /\ t \in Live
      /\ new # old
      /\ UseNewPriority(t, new)
      /\ uxBasePriority' = [uxBasePriority EXCEPT ![t] = new]
      /\ eventValue' = [eventValue EXCEPT ![t] = configMAX_PRIORITIES - new]
      /\ IF store.generic[t] = pxReadyTasksLists(old)
         THEN AddTaskToReadyQueue(RemoveGeneric(store, t), t, uxPriority'[t])
         ELSE UNCHANGED listVars
      /\ yieldPending' = (IF new > old THEN t # c ELSE t = c)
      /\ changes < MaxChanges /\ changes' = changes + 1
      /\ disturbed' = TRUE
  /\ UNCHANGED <<tickVars, delayVars, allocated, uxTopUsedPriority,
                 uxCurrentNumberOfTasks, uxTasksDeleted, suspendVars, loopVars,
                 runVars, pc, queueLock, mutexVars, lowered>>

(* What Kernel does as it is: the rest of vTaskPlaceOnEventList, xTaskResumeAll,
   vTaskResume, the idle task, and the tick, which ends waits that time out. *)
KernelStep ==
  \/ \E t \in TCB :
       \/ YieldWithinAPI(t)
       \/ PlaceUnlink(t) \/ PlaceInsert(t) \/ QueueUnlock(t)
       \/ ResumeAll(t)
  \/ \E c, t \in Task : Idles(c) /\ ResumeTask(c, t)
  \/ IdleStep
  \/ MaskedStep
  \/ TickISR

(* vTaskSuspend. *)
MutexSuspendTask(c, t) ==
  /\ SuspendTask(c, t)
  /\ Idles(c)
  /\ changes < MaxChanges /\ changes' = changes + 1
  /\ disturbed' = (disturbed \/ taking[t] # NULL)
  /\ UNCHANGED <<uxBasePriority, eventValue, mutexVars, lowered>>

MutexSwitch ==
  /\ Switch
  /\ lowered' = (lowered /\ uxSchedulerSuspended > 0)
  /\ UNCHANGED <<uxBasePriority, eventValue, mutexVars, changes, disturbed>>

MutexNext ==
  \/ MutexBoot
  \/ \E t \in Task :
       \/ \E m \in Event : MutexTake(t, m) \/ MutexLook(t, m) \/ MutexGive(t, m)
       \/ MutexSuspend(t)
       \/ MutexInherit(t) \/ MutexLeave(t)
       \/ MutexPlace(t)
  \/ MutexGiven
  \/ \E c, t \in Task, p \in RequestedPriority : MutexPrioritySet(c, t, p)
  \/ \E c, t \in Task : MutexSuspendTask(c, t)
  \/ MutexSwitch
  \/ /\ KernelStep
     /\ UNCHANGED <<uxBasePriority, eventValue, mutexVars, historyVars>>

MutexSpec == MutexInit /\ [][MutexNext]_mVars

-----------------------------------------------------------------------------
Waits(t, m) == store.event[t] = EventList(m)

(* No priority inversion, of one mutex: while it is held and waited for, its
   holder has a priority at least that of each task that waits, however often
   waits time out, the mutex changes hands, and the holder is suspended; as long
   as nobody sets priorities, or suspends a task whose take is under way. *)
NoInversion ==
  ~disturbed =>
    \A m \in Event, t \in Task :
      Waits(t, m) /\ pxMutexHolder[m] # NULL =>
        uxPriority[pxMutexHolder[m]] >= uxPriority[t]

(* A task that holds no mutex uses its base priority: what it inherited ends
   with the mutex, whatever was set or timed out meanwhile. *)
PriorityRestored ==
  \A t \in TCB :
    (\A m \in Event : pxMutexHolder[m] # t) => uxPriority[t] = uxBasePriority[t]

(* The highest ready priority runs, with one exception: a holder that fell back
   to its base priority goes on until the next switch.  Where nobody waits for
   the mutex any more, no switch is asked for; nor where who waits is not more
   urgent than the holder is then.  The exception holds either way. *)
SettledButLowered == DispatchSettled \/ lowered

=============================================================================

------------------------------ MODULE PortLayer ------------------------------
(***************************************************************************)
(* The mechanisms below the scheduler, one memory access at a time:        *)
(* critical sections and their nesting, the interrupt mask that interrupts *)
(* save and restore, requested context switches, and vTaskSuspendAll,      *)
(* whose ++uxSchedulerSuspended reads and writes the variable without a    *)
(* critical section.  Two kinds of port are followed.  With                *)
(* portCRITICAL_NESTING_IN_TCB 1 the nesting is counted in the TCB         *)
(* (vTaskEnterCritical, vTaskExitCritical), and a yield switches at once,  *)
(* even in a critical section, the incoming task getting its own mask      *)
(* back. In the port contract (0) it is one global depth, and a switch is  *)
(* taken when interrupts are enabled.                                      *)
(***************************************************************************)
EXTENDS Integers, Sequences

CONSTANTS
  TCB,           \* the tasks
  MaxDepth,      \* bound: nested vTaskSuspendAll calls of a task
  MaxSections,   \* bound: nested critical sections of a task
  MaxInterrupts  \* bound: nested interrupts

ASSUME TCBAssumption == TCB # {}
ASSUME BoundAssumption == /\ MaxDepth \in Nat
                          /\ MaxSections \in Nat
                          /\ MaxInterrupts \in Nat

VARIABLES
  nestingInTCB,                   \* the port: portCRITICAL_NESTING_IN_TCB
  xSchedulerRunning, pxCurrentTCB, uxSchedulerSuspended, xMissedYield,
  uxCriticalNesting,              \* of each TCB
  eal6_port_critical_depth,
  interruptsDisabled,             \* eal6_port_interrupts_disabled
  yieldPending,                   \* a yield was requested and not yet taken
  pc, reg,                        \* of each task: where it is, its register
  isr,                            \* the nested interrupts, the innermost last:
                                  \* what each has saved of the mask
  holds,                          \* history: vTaskSuspendAll calls of each task
                                  \* that xTaskResumeAll has not undone
  sections                        \* history: critical sections each is in

portVars == <<uxCriticalNesting, eal6_port_critical_depth, interruptsDisabled>>
suspendVars == <<uxSchedulerSuspended, xMissedYield>>
runVars == <<nestingInTCB, xSchedulerRunning, pxCurrentTCB>>
taskVars == <<pc, reg>>
vars == <<portVars, suspendVars, runVars, taskVars, yieldPending, isr, holds,
          sections>>

(* What an interrupt has saved: nothing yet, the mask it found, or the mask it
   has restored already. *)
Saved == {"nothing", "enabled", "disabled", "restored"}

Points == {"app", "increment", "decrement", "leave"}

TypeOK ==
  /\ nestingInTCB \in BOOLEAN
  /\ xSchedulerRunning \in BOOLEAN
  /\ pxCurrentTCB \in TCB
  /\ uxSchedulerSuspended \in 0 .. MaxDepth
  /\ xMissedYield \in BOOLEAN
  /\ uxCriticalNesting \in [TCB -> Nat]
  /\ eal6_port_critical_depth \in Nat
  /\ interruptsDisabled \in BOOLEAN
  /\ yieldPending \in BOOLEAN
  /\ pc \in [TCB -> Points]
  /\ reg \in [TCB -> Nat]
  /\ isr \in Seq(Saved)
  /\ holds \in [TCB -> Nat]
  /\ sections \in [TCB -> Nat]

(* Before the start; pxCurrentTCB is the task that will run first. *)
Init ==
  /\ nestingInTCB \in BOOLEAN
  /\ xSchedulerRunning = FALSE
  /\ pxCurrentTCB \in TCB
  /\ uxSchedulerSuspended = 0
  /\ xMissedYield = FALSE
  /\ uxCriticalNesting = [t \in TCB |-> 0]
  /\ eal6_port_critical_depth = 0
  /\ interruptsDisabled = FALSE
  /\ yieldPending = FALSE
  /\ pc = [t \in TCB |-> "app"]
  /\ reg = [t \in TCB |-> 0]
  /\ isr = <<>>
  /\ holds = [t \in TCB |-> 0]
  /\ sections = [t \in TCB |-> 0]

-----------------------------------------------------------------------------
(* portENTER_CRITICAL and portEXIT_CRITICAL *)

EnterCritical ==
  /\ interruptsDisabled' = TRUE
  /\ IF nestingInTCB
     THEN /\ uxCriticalNesting' =
               IF xSchedulerRunning
               THEN [uxCriticalNesting EXCEPT ![pxCurrentTCB] = @ + 1]
               ELSE uxCriticalNesting
          /\ UNCHANGED eal6_port_critical_depth
     ELSE /\ eal6_port_critical_depth' = eal6_port_critical_depth + 1
          /\ UNCHANGED uxCriticalNesting

(* Mutated form: interrupts are enabled at the end of any section. *)
LeavesLast_Any(nesting) == nesting > 0

LeavesLast(nesting) == nesting = 1

(* vTaskExitCritical does nothing before the scheduler runs, nor where no
   section is open; eal6_port_exit_critical enables interrupts even then. *)
ExitCritical ==
  IF nestingInTCB
  THEN LET nesting == uxCriticalNesting[pxCurrentTCB]
       IN  /\ IF xSchedulerRunning /\ nesting > 0
              THEN /\ uxCriticalNesting' =
                        [uxCriticalNesting EXCEPT ![pxCurrentTCB] = @ - 1]
                   /\ interruptsDisabled' =
                        (interruptsDisabled /\ ~LeavesLast(nesting))
              ELSE UNCHANGED <<uxCriticalNesting, interruptsDisabled>>
           /\ UNCHANGED eal6_port_critical_depth
  ELSE LET depth == eal6_port_critical_depth
       IN  /\ eal6_port_critical_depth' = IF depth > 0 THEN depth - 1 ELSE depth
           /\ interruptsDisabled' =
                (interruptsDisabled /\ depth > 0 /\ ~LeavesLast(depth))
           /\ UNCHANGED uxCriticalNesting

-----------------------------------------------------------------------------
(* main(), before the start.  Its critical sections (xTaskCreate has one) are
   not nested. *)

MainCritical ==
  /\ ~xSchedulerRunning
  /\ eal6_port_critical_depth = 0
  /\ EnterCritical
  /\ UNCHANGED <<suspendVars, runVars, taskVars, yieldPending, isr, holds,
                 sections>>

MainLeaves ==
  /\ ~xSchedulerRunning
  /\ interruptsDisabled
  /\ ExitCritical
  /\ UNCHANGED <<suspendVars, runVars, taskVars, yieldPending, isr, holds,
                 sections>>

(* vTaskStartScheduler disables interrupts; they are enabled again when the
   first task starts to run. *)
StartScheduler ==
  /\ ~xSchedulerRunning
  /\ eal6_port_critical_depth = 0
  /\ xSchedulerRunning' = TRUE
  /\ interruptsDisabled' = FALSE
  /\ UNCHANGED <<nestingInTCB, pxCurrentTCB, uxCriticalNesting,
                 eal6_port_critical_depth, suspendVars, taskVars, yieldPending,
                 isr, holds, sections>>

-----------------------------------------------------------------------------
(* The running task.  Where a yield is pending it goes on only in a critical
   section of a port that defers the switch. *)
RunsAt(t, point) ==
  /\ xSchedulerRunning
  /\ isr = <<>>
  /\ pxCurrentTCB = t
  /\ yieldPending => ~nestingInTCB /\ interruptsDisabled
  /\ pc[t] = point

Goto(t, point) == pc' = [pc EXCEPT ![t] = point]

(* taskENTER_CRITICAL and taskEXIT_CRITICAL. *)
TaskEntersCritical(t) ==
  /\ RunsAt(t, "app")
  /\ sections[t] < MaxSections
  /\ EnterCritical
  /\ sections' = [sections EXCEPT ![t] = @ + 1]
  /\ UNCHANGED <<suspendVars, runVars, taskVars, yieldPending, isr, holds>>

TaskExitsCritical(t) ==
  /\ RunsAt(t, "app")
  /\ sections[t] > 0
  /\ ExitCritical
  /\ sections' = [sections EXCEPT ![t] = @ - 1]
  /\ UNCHANGED <<suspendVars, runVars, taskVars, yieldPending, isr, holds>>

(* portYIELD, also called in a critical section (xTaskResumeAll does it). *)
TaskYields(t) ==
  /\ RunsAt(t, "app")
  /\ yieldPending' = TRUE
  /\ UNCHANGED <<portVars, suspendVars, runVars, taskVars, isr, holds,
                 sections>>

(* vTaskSuspendAll: the variable is read ... *)
SuspendAllReads(t) ==
  /\ RunsAt(t, "app")
  /\ holds[t] < MaxDepth
  /\ reg' = [reg EXCEPT ![t] = uxSchedulerSuspended]
  /\ Goto(t, "increment")
  /\ UNCHANGED <<portVars, suspendVars, runVars, yieldPending, isr, holds,
                 sections>>

(* ... and written, with any number of interrupts and tasks in between. *)
SuspendAllWrites(t) ==
  /\ RunsAt(t, "increment")
  /\ uxSchedulerSuspended' = reg[t] + 1
  /\ holds' = [holds EXCEPT ![t] = @ + 1]
  /\ Goto(t, "app")
  /\ UNCHANGED <<portVars, xMissedYield, runVars, reg, yieldPending, isr,
                 sections>>

(* xTaskResumeAll, a critical section: it is entered ... *)
ResumeAllEnters(t) ==
  /\ RunsAt(t, "app")
  /\ holds[t] > 0
  /\ EnterCritical
  /\ sections' = [sections EXCEPT ![t] = @ + 1]
  /\ Goto(t, "decrement")
  /\ UNCHANGED <<suspendVars, runVars, reg, yieldPending, isr, holds>>

(* Mutated form: the count stays as it is. *)
Decremented_Not == uxSchedulerSuspended

Decremented == uxSchedulerSuspended - 1

(* ... the count goes down, and the task yields where a yield was missed or one
   of the readied tasks or replayed ticks requires it ... *)
ResumeAllDecrements(t) ==
  /\ RunsAt(t, "decrement")
  /\ uxSchedulerSuspended' = Decremented
  /\ holds' = [holds EXCEPT ![t] = @ - 1]
  /\ \E xYieldRequired \in BOOLEAN :
       IF uxSchedulerSuspended = 1 /\ (xYieldRequired \/ xMissedYield)
       THEN yieldPending' = TRUE /\ xMissedYield' = FALSE
       ELSE UNCHANGED <<yieldPending, xMissedYield>>
  /\ Goto(t, "leave")
  /\ UNCHANGED <<portVars, runVars, reg, isr, sections>>

(* ... and the section is left, before or after the switch. *)
ResumeAllLeaves(t) ==
  /\ RunsAt(t, "leave")
  /\ ExitCritical
  /\ sections' = [sections EXCEPT ![t] = @ - 1]
  /\ Goto(t, "app")
  /\ UNCHANGED <<suspendVars, runVars, reg, yieldPending, isr, holds>>

-----------------------------------------------------------------------------
(* Interrupts *)

Innermost == isr[Len(isr)]

InterruptBegins ==
  /\ xSchedulerRunning
  /\ ~interruptsDisabled
  /\ Len(isr) < MaxInterrupts
  /\ isr' = Append(isr, "nothing")
  /\ UNCHANGED <<portVars, suspendVars, runVars, taskVars, yieldPending, holds,
                 sections>>

(* portSET_INTERRUPT_MASK_FROM_ISR *)
InterruptMasks ==
  /\ isr # <<>>
  /\ Innermost = "nothing"
  /\ isr' = [isr EXCEPT ![Len(isr)] =
               IF interruptsDisabled THEN "disabled" ELSE "enabled"]
  /\ interruptsDisabled' = TRUE
  /\ UNCHANGED <<uxCriticalNesting, eal6_port_critical_depth, suspendVars,
                 runVars, taskVars, yieldPending, holds, sections>>

(* portCLEAR_INTERRUPT_MASK_FROM_ISR *)
InterruptUnmasks ==
  /\ isr # <<>>
  /\ Innermost \in {"enabled", "disabled"}
  /\ interruptsDisabled' = (Innermost = "disabled")
  /\ isr' = [isr EXCEPT ![Len(isr)] = "restored"]
  /\ UNCHANGED <<uxCriticalNesting, eal6_port_critical_depth, suspendVars,
                 runVars, taskVars, yieldPending, holds, sections>>

(* It returns, having asked for a context switch or not. *)
InterruptEnds ==
  /\ isr # <<>>
  /\ Innermost \in {"nothing", "restored"}
  /\ isr' = SubSeq(isr, 1, Len(isr) - 1)
  /\ yieldPending' \in {yieldPending, TRUE}
  /\ UNCHANGED <<portVars, suspendVars, runVars, taskVars, holds, sections>>

-----------------------------------------------------------------------------
(* The port takes a pending switch and calls vTaskSwitchContext. *)
SwitchTaken ==
  /\ xSchedulerRunning
  /\ yieldPending
  /\ isr = <<>>
  /\ nestingInTCB \/ ~interruptsDisabled
  /\ yieldPending' = FALSE
  /\ UNCHANGED <<nestingInTCB, xSchedulerRunning, uxSchedulerSuspended,
                 uxCriticalNesting, eal6_port_critical_depth, taskVars, isr,
                 holds, sections>>

(* Mutated form: it only notes the yield, and switches all the same. *)
SwitchBarred_Never == FALSE

SwitchBarred == uxSchedulerSuspended > 0

SwitchContext ==
  /\ SwitchTaken
  /\ ~SwitchBarred
  /\ pxCurrentTCB' \in TCB
  /\ interruptsDisabled' =
       (nestingInTCB /\ uxCriticalNesting[pxCurrentTCB'] > 0)
  /\ UNCHANGED xMissedYield

SwitchMissed ==
  /\ SwitchTaken
  /\ SwitchBarred
  /\ xMissedYield' = TRUE
  /\ UNCHANGED <<pxCurrentTCB, interruptsDisabled>>

-----------------------------------------------------------------------------
TaskStep(t) ==
  \/ TaskEntersCritical(t) \/ TaskExitsCritical(t)
  \/ TaskYields(t)
  \/ SuspendAllReads(t) \/ SuspendAllWrites(t)
  \/ ResumeAllEnters(t) \/ ResumeAllDecrements(t) \/ ResumeAllLeaves(t)

Interrupt == \/ InterruptBegins \/ InterruptMasks
             \/ InterruptUnmasks \/ InterruptEnds

Next ==
  \/ MainCritical \/ MainLeaves \/ StartScheduler
  \/ \E t \in TCB : TaskStep(t)
  \/ Interrupt
  \/ SwitchContext \/ SwitchMissed

Spec == Init /\ [][Next]_vars

-----------------------------------------------------------------------------
(* Interrupts are disabled exactly while the running task is in a critical
   section, of whatever nesting and however often it was switched out in it, or
   the innermost interrupt has set the mask: no task is left with interrupts
   disabled, or loses a section, because another one ran. *)
MaskExact ==
  xSchedulerRunning =>
    (interruptsDisabled <=>
       \/ sections[pxCurrentTCB] > 0
       \/ isr # <<>> /\ Innermost \in {"enabled", "disabled"})

(* "A critical section is not required as the variable is of type portBASE_TYPE"
   (tasks.c:1100): vTaskSuspendAll and xTaskResumeAll are a lock, though the
   increment is a read and a write, and interrupts and tasks come between. *)
Lock == INSTANCE SchedulerLock WITH current <- pxCurrentTCB
ImplementsLock == Lock!Spec

=============================================================================

---------------------------- MODULE SchedulerLock ----------------------------
(***************************************************************************)
(* What vTaskSuspendAll and xTaskResumeAll promise to tasks: a lock that   *)
(* its holder may take again, and that keeps the holder on the processor.  *)
(***************************************************************************)
EXTENDS Naturals

CONSTANT TCB

VARIABLES
  current,   \* the task that has the processor
  holds      \* how often each task has taken the lock

lockVars == <<current, holds>>

Init == current \in TCB /\ holds = [t \in TCB |-> 0]

(* The running task takes the lock; nobody else has it, or it would run. *)
Take == /\ holds' = [holds EXCEPT ![current] = @ + 1]
        /\ UNCHANGED current

Release == /\ holds[current] > 0
           /\ holds' = [holds EXCEPT ![current] = @ - 1]
           /\ UNCHANGED current

(* Another task gets the processor only while nobody has the lock. *)
Dispatch == /\ \A t \in TCB : holds[t] = 0
            /\ current' \in TCB
            /\ UNCHANGED holds

Next == Take \/ Release \/ Dispatch

Spec == Init /\ [][Next]_lockVars

=============================================================================

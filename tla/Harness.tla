------------------------------ MODULE Harness ------------------------------
(***************************************************************************)
(* The checks of the trace harness (src/harness/scheduler_trace.c), asked  *)
(* of the kernel.  The harness builds six states by hand, calls the tick,  *)
(* the switch or vTaskDelay on them, and validates the scheduler's data    *)
(* before and after each call; here the same conditions are stated of      *)
(* every state between two calls that the kernel reaches by itself.        *)
(***************************************************************************)
EXTENDS Kernel

(* A snapshot is taken between two calls: the scheduler runs, it is not
   suspended, and no critical section is open. *)
Boundary == InterruptsEnabled /\ uxSchedulerSuspended = 0

(* The port owes the task a switch: it was requested and not made yet, or the
   API call is about to request it. *)
YieldPending == yieldPending \/ pc[pxCurrentTCB] = "yield"

-----------------------------------------------------------------------------
(* validate_list: the shape of a ring, in its view.  Only generic items are in
   a ring of generic lists by the types of the store. *)

ContainersExact(l) ==
  /\ IsInjective(store.ring[l])
  /\ \A t \in Range(store.ring[l]) :
        l = IF l \in GenericLists THEN store.generic[t] ELSE store.event[t]

PrioritiesMatch(p) ==
  \A t \in Range(store.ring[pxReadyTasksLists(p)]) : uxPriority[t] = p

KeysNondecreasing(l) ==
  \A i \in 1 .. Len(store.ring[l]) - 1 :
     xItemValue[store.ring[l][i]] <= xItemValue[store.ring[l][i + 1]]

ListsValid ==
  /\ \A l \in Lists : ContainersExact(l)
  /\ \A p \in Priority : PrioritiesMatch(p)
  /\ \A l \in DelayLists : KeysNondecreasing(l)

-----------------------------------------------------------------------------
(* validate_scheduler_state *)

RolesPartition ==
  /\ pxDelayedTaskList # pxOverflowDelayedTaskList
  /\ {pxDelayedTaskList, pxOverflowDelayedTaskList} = DelayLists

(* The lists an item occurs in are the one its container names, or none. *)
ItemsOnce ==
  \A t \in TCB :
    /\ {l \in GenericLists : t \in Range(store.ring[l])}
         = {store.generic[t]} \ {NULL}
    /\ {l \in EventLists : t \in Range(store.ring[l])}
         = {store.event[t]} \ {NULL}

HighestReady == {p \in Priority :
                   ReadyAt(p) /\ \A q \in Priority : ReadyAt(q) => q <= p}

(* uxTopReadyPriority is exact while no switch is owed, and an upper bound of
   the highest ready priority until it is made. *)
TopReadyValid ==
  \E highest_ready \in HighestReady :
    IF YieldPending
    THEN uxTopReadyPriority >= highest_ready
    ELSE uxTopReadyPriority = highest_ready

(* Where a current task may be that has just left its ready list.  The harness
   has one way to leave it, vTaskDelay, and demands one of the delay lists; a
   task that waits without limit, suspends or deletes itself has no time to wake
   up at (ticksLeft), and is where those calls put it. *)
LeftReadyList(t) ==
  IF ticksLeft[t] > 0
  THEN store.generic[t] \in {pxDelayedTaskList, pxOverflowDelayedTaskList}
  ELSE store.generic[t] \in {xSuspendedTaskList, xTasksWaitingTermination}

(* The running task is ready; only while a switch is owed may it have left its
   ready list instead.  The harness owes a switch for no other reason than
   vTaskDelay, and demands the second; the kernel also owes one to a task that
   is still ready, for a tick or a task of a higher priority. *)
CurrentValid ==
  /\ pxCurrentTCB \in allocated
  /\ uxPriority[pxCurrentTCB] < configMAX_PRIORITIES
  /\ \/ store.generic[pxCurrentTCB]
          = pxReadyTasksLists(uxPriority[pxCurrentTCB])
     \/ YieldPending /\ LeftReadyList(pxCurrentTCB)

(* What the harness validates of its hand-built states and their successors
   (scheduler_trace.c:502-620) holds of every state between two calls, whatever
   the tasks and the interrupts did before: the delay lists keep their roles
   and their order across wraps, each item is in the one list its container
   names, uxTopReadyPriority is exact unless a switch is owed, and a current
   task that is not ready is owed one and is in a delay list, or where
   vTaskSuspend, vTaskDelete or a wait without limit put it. *)
HarnessAccepts ==
  Boundary =>
    /\ RolesPartition
    /\ ListsValid
    /\ ItemsOnce
    /\ TopReadyValid
    /\ CurrentValid

=============================================================================

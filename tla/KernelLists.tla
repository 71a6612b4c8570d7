---------------------------- MODULE KernelLists -----------------------------
(***************************************************************************)
(* The lists of tasks.c and the two list items of every task control       *)
(* block.  A store holds, for every list, the view of its ring (ListView)  *)
(* and, for every item, the list its pvContainer points to.  The generic   *)
(* item of a task is only ever in a ready, delayed, suspended or           *)
(* termination list; its event item only in an event list or in the        *)
(* pending-ready list, so a ring is a sequence of tasks.                   *)
(***************************************************************************)
EXTENDS ListView

CONSTANTS
  Task,                  \* the tasks the application may create
  Idle,                  \* the idle task, created by vTaskStartScheduler
  Event,                 \* the event lists of queues and semaphores
  configMAX_PRIORITIES,
  NULL

ASSUME PrioritiesAssumption == configMAX_PRIORITIES \in Nat \ {0}
ASSUME IdleAssumption == Idle \notin Task
ASSUME NullAssumption == NULL \notin Task \cup {Idle} \cup Event

TCB == Task \cup {Idle}
Priority == 0 .. configMAX_PRIORITIES - 1

pxReadyTasksLists(p)    == <<"ready", p>>
xDelayedTaskList1       == <<"delayed", 1>>
xDelayedTaskList2       == <<"delayed", 2>>
xSuspendedTaskList      == <<"suspended", 0>>
xTasksWaitingTermination == <<"termination", 0>>
xPendingReadyList       == <<"pending", 0>>
EventList(e)            == <<"event", e>>

ReadyLists   == {pxReadyTasksLists(p) : p \in Priority}
DelayLists   == {xDelayedTaskList1, xDelayedTaskList2}
GenericLists == ReadyLists \cup DelayLists
                  \cup {xSuspendedTaskList, xTasksWaitingTermination}
EventLists   == {xPendingReadyList} \cup {EventList(e) : e \in Event}
Lists        == GenericLists \cup EventLists

ASSUME NullListAssumption == NULL \notin Lists

(* A store: the rings, and pvContainer of the two items of each task. *)
Stores == [ring      : [Lists -> Seq(TCB)],
           generic   : [TCB -> GenericLists \cup {NULL}],
           event     : [TCB -> EventLists \cup {NULL}]]

(* Every list initialised, no item in any (prvInitialiseTaskLists and
   vListInitialise). *)
EmptyStore == [ring    |-> [l \in Lists |-> <<>>],
               generic |-> [t \in TCB |-> NULL],
               event   |-> [t \in TCB |-> NULL]]

(* vListRemove on the generic item: the item knows the list it is in. *)
RemoveGeneric(L, t) ==
  [L EXCEPT !.ring[L.generic[t]] = ViewRemove(@, t), !.generic[t] = NULL]

RemoveEvent(L, t) ==
  [L EXCEPT !.ring[L.event[t]] = ViewRemove(@, t), !.event[t] = NULL]

(* Mutated form: the event item stays where it is. *)
RemoveEventIfLinked_Never(L, t) == L

(* `if( pxTCB->xEventListItem.pvContainer ) vListRemove(...)' *)
RemoveEventIfLinked(L, t) ==
  IF L.event[t] = NULL THEN L ELSE RemoveEvent(L, t)

InsertEndGeneric(L, l, t) ==
  [L EXCEPT !.ring[l] = ViewInsertEnd(@, t), !.generic[t] = l]

InsertEndEvent(L, l, t) ==
  [L EXCEPT !.ring[l] = ViewInsertEnd(@, t), !.event[t] = l]

(* vListInsert, sorted by the items' values. *)
InsertGeneric(L, l, value, t) ==
  [L EXCEPT !.ring[l] = ViewInsert(@, value, t), !.generic[t] = l]

InsertEvent(L, l, value, t) ==
  [L EXCEPT !.ring[l] = ViewInsert(@, value, t), !.event[t] = l]

(* listGET_OWNER_OF_NEXT_ENTRY on list l; the owner is OwnerOfHead(L, l). *)
NextEntry(L, l) == [L EXCEPT !.ring[l] = ViewNext(@)]

IsEmpty(L, l) == L.ring[l] = <<>>

OwnerOfHead(L, l) == IF IsEmpty(L, l) THEN NULL ELSE Head(L.ring[l])

(* The store is consistent: no item twice in a ring, and the pvContainer of an
   item is the list it is in.  Everything list.c does relies on it:
   vListRemove decrements the count of the list pvContainer names. *)
StoreOK(L) ==
  /\ \A l \in Lists : IsInjective(L.ring[l])
  /\ \A l \in GenericLists, t \in TCB :
        Contains(L.ring[l], t) <=> L.generic[t] = l
  /\ \A l \in EventLists, t \in TCB :
        Contains(L.ring[l], t) <=> L.event[t] = l

=============================================================================

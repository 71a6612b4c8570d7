---------------------------- MODULE KernelProofs ----------------------------
(***************************************************************************)
(* Proofs about Kernel for any number of tasks, events and priorities, any *)
(* width of the tick count, any bounds on nesting and on missed ticks, and *)
(* any choice of the API functions compiled in: every variable keeps its   *)
(* type, and vTaskSuspendAll excludes; the rings and pvContainer agree     *)
(* whatever the interleaving (StoreConsistent), every task is in the list  *)
(* its state calls for (Placement), and only blocked tasks are in event    *)
(* lists (EventPlacement).  About what it runs: the search of              *)
(* vTaskSwitchContext finds the highest ready priority (ReadyCache), a     *)
(* task that makes a step with no switch requested is of that priority     *)
(* (DispatchSettled), a suspension leaves nothing behind                   *)
(* (NothingHeldBack), and the idle task's counts are right (TaskCounts).   *)
(* About time: the delay lists are sorted and each wake time is right      *)
(* across a wrap of the tick count (DelayListsOrdered), so that            *)
(* prvCheckDelayedTasks, which looks at the heads only, wakes no task late *)
(* (NeverLate) and none early (NeverEarly); no tick is lost while the      *)
(* scheduler is suspended (TicksNotLost); where no priority is changed the *)
(* event lists are sorted by it (EventListsOrdered).  And, from all this,  *)
(* the trace harness accepts every state between two calls                 *)
(* (HarnessAccepts).                                                       *)
(***************************************************************************)
EXTENDS Kernel, Harness, ListViewProofs, FiniteSetTheorems

-----------------------------------------------------------------------------
(* What the operations on a store preserve, its type and its consistency
   (StoreOK), and what each of them changes and leaves.  The proofs about the
   kernel do not look inside a ring. *)

(* The lists of generic items are not those of event items. *)
LEMMA ListsDisjoint ==
  /\ GenericLists \cap EventLists = {}
  /\ GenericLists \cup EventLists = Lists
  /\ NULL \notin Lists
<1>1. ASSUME NEW l \in GenericLists
      PROVE  l[1] \in {"ready", "delayed", "suspended", "termination"}
  BY DEF GenericLists, ReadyLists, DelayLists, pxReadyTasksLists,
         xDelayedTaskList1, xDelayedTaskList2, xSuspendedTaskList,
         xTasksWaitingTermination
<1>2. ASSUME NEW l \in EventLists
      PROVE  l[1] \in {"pending", "event"}
  BY DEF EventLists, xPendingReadyList, EventList
<1>. QED BY <1>1, <1>2, NullListAssumption DEF Lists

(* The lists that are told apart by name. *)
LEMMA ListNames ==
  /\ \A p \in Priority : pxReadyTasksLists(p) \in ReadyLists
  /\ \A p, q \in Priority :
        pxReadyTasksLists(p) = pxReadyTasksLists(q) => p = q
  /\ ReadyLists \subseteq GenericLists
  /\ DelayLists \subseteq GenericLists
  /\ ReadyLists \cap DelayLists = {}
  /\ xSuspendedTaskList \in GenericLists \ (ReadyLists \cup DelayLists)
  /\ xTasksWaitingTermination \in GenericLists \ (ReadyLists \cup DelayLists)
  /\ xSuspendedTaskList # xTasksWaitingTermination
  /\ xDelayedTaskList1 \in DelayLists /\ xDelayedTaskList2 \in DelayLists
  /\ xPendingReadyList \in EventLists
  /\ \A e \in Event : EventList(e) \in EventLists
  /\ \A e \in Event : EventList(e) # xPendingReadyList
<1>1. \A p \in Priority : pxReadyTasksLists(p)[1] = "ready"
                            /\ pxReadyTasksLists(p)[2] = p
  BY DEF pxReadyTasksLists
<1>2. /\ xDelayedTaskList1[1] = "delayed" /\ xDelayedTaskList2[1] = "delayed"
      /\ xSuspendedTaskList[1] = "suspended"
      /\ xTasksWaitingTermination[1] = "termination"
      /\ xPendingReadyList[1] = "pending"
      /\ \A e \in Event : EventList(e)[1] = "event"
  BY DEF xDelayedTaskList1, xDelayedTaskList2, xSuspendedTaskList,
         xTasksWaitingTermination, xPendingReadyList, EventList
<1>. QED BY <1>1, <1>2 DEF GenericLists, EventLists, ReadyLists, DelayLists

-----------------------------------------------------------------------------
(* Types.  A store stays a store, whatever the state of the items. *)

LEMMA EmptyStoreType == EmptyStore \in Stores
<1>. <<>> \in Seq(TCB)
  OBVIOUS
<1>. QED BY DEF EmptyStore, Stores

LEMMA RemoveGenericType ==
  ASSUME NEW L \in Stores, NEW t \in TCB
  PROVE  RemoveGeneric(L, t) \in Stores
<1>1. \A l \in Lists : ViewRemove(L.ring[l], t) \in Seq(TCB)
  BY ViewRemoveProperties DEF Stores
<1>. QED BY <1>1 DEF RemoveGeneric, Stores

LEMMA RemoveEventType ==
  ASSUME NEW L \in Stores, NEW t \in TCB
  PROVE  /\ RemoveEvent(L, t) \in Stores
         /\ RemoveEventIfLinked(L, t) \in Stores
<1>1. \A l \in Lists : ViewRemove(L.ring[l], t) \in Seq(TCB)
  BY ViewRemoveProperties DEF Stores
<1>. QED BY <1>1 DEF RemoveEvent, RemoveEventIfLinked, Stores

LEMMA InsertEndType ==
  ASSUME NEW L \in Stores, NEW t \in TCB
  PROVE  /\ \A l \in GenericLists : InsertEndGeneric(L, l, t) \in Stores
         /\ \A l \in EventLists : InsertEndEvent(L, l, t) \in Stores
<1>1. \A l \in Lists : ViewInsertEnd(L.ring[l], t) \in Seq(TCB)
  BY ViewInsertEndProperties DEF Stores
<1>. QED BY <1>1 DEF InsertEndGeneric, InsertEndEvent, Stores

LEMMA InsertType ==
  ASSUME NEW L \in Stores, NEW t \in TCB, NEW value
  PROVE  /\ \A l \in GenericLists : InsertGeneric(L, l, value, t) \in Stores
         /\ \A l \in EventLists : InsertEvent(L, l, value, t) \in Stores
<1>1. \A l \in Lists : ViewInsert(L.ring[l], value, t) \in Seq(TCB)
  BY ViewInsertProperties DEF Stores
<1>. QED BY <1>1 DEF InsertGeneric, InsertEvent, Stores

LEMMA NextEntryType ==
  ASSUME NEW L \in Stores, NEW l \in Lists, ~IsEmpty(L, l)
  PROVE  NextEntry(L, l) \in Stores
<1>1. ViewNext(L.ring[l]) \in Seq(TCB)
  BY ViewNextProperties DEF Stores, IsEmpty
<1>. QED BY <1>1 DEF NextEntry, Stores

(* The head of a list that is not empty is a task, and is in the list. *)
LEMMA OwnerOfHeadIsTask ==
  ASSUME NEW L \in Stores, NEW l \in Lists, ~IsEmpty(L, l)
  PROVE  /\ OwnerOfHead(L, l) \in TCB
         /\ Contains(L.ring[l], OwnerOfHead(L, l))
<1> DEFINE s == L.ring[l]
<1>1. s \in Seq(TCB) /\ s # <<>>
  BY DEF Stores, IsEmpty
<1>2. OwnerOfHead(L, l) = Head(s)
  BY DEF OwnerOfHead, IsEmpty
<1>. HIDE DEF s
<1>3. Head(s) = s[1] /\ 1 \in 1 .. Len(s) /\ Head(s) \in TCB
  BY <1>1, HeadTailProperties, EmptySeq
<1>. QED BY <1>2, <1>3 DEF Contains, s

-----------------------------------------------------------------------------
(* Consistency.  Removing is consistent where the item is in a list, and
   inserting where it is in none. *)

LEMMA EmptyStoreOK == StoreOK(EmptyStore)
<1>1. \A l \in Lists : EmptyStore.ring[l] = <<>>
  BY DEF EmptyStore
<1>2. IsInjective(<<>>) /\ \A t : ~Contains(<<>>, t)
  BY DEF IsInjective, Contains
<1>3. \A t \in TCB : EmptyStore.generic[t] = NULL /\ EmptyStore.event[t] = NULL
  BY DEF EmptyStore
<1>. QED BY <1>1, <1>2, <1>3, ListsDisjoint DEF StoreOK

LEMMA RemoveGenericOK ==
  ASSUME NEW L \in Stores, StoreOK(L), NEW t \in TCB, L.generic[t] # NULL
  PROVE  /\ StoreOK(RemoveGeneric(L, t))
         /\ RemoveGeneric(L, t).generic = [L.generic EXCEPT ![t] = NULL]
         /\ RemoveGeneric(L, t).event = L.event
<1> DEFINE M == RemoveGeneric(L, t)
           k == L.generic[t]
<1>1. k \in GenericLists /\ k \in Lists /\ k \notin EventLists
  BY ListsDisjoint DEF Stores
<1>2. /\ M.generic = [L.generic EXCEPT ![t] = NULL]
      /\ M.event = L.event
      /\ M.ring = [L.ring EXCEPT ![k] = ViewRemove(L.ring[k], t)]
  BY DEF RemoveGeneric, Stores
<1>3. \A l \in Lists :
         M.ring[l] = IF l = k THEN ViewRemove(L.ring[k], t) ELSE L.ring[l]
  BY <1>2 DEF Stores
<1>4. \A u \in TCB : M.generic[u] = IF u = t THEN NULL ELSE L.generic[u]
  BY <1>2 DEF Stores
<1>. HIDE DEF M
<1>5. /\ IsInjective(ViewRemove(L.ring[k], t))
      /\ \A u : Contains(ViewRemove(L.ring[k], t), u)
                  <=> Contains(L.ring[k], u) /\ u # t
  BY <1>1, ViewRemoveProperties DEF StoreOK, Stores
<1>6. \A l \in Lists : IsInjective(M.ring[l])
  BY <1>3, <1>5 DEF StoreOK
<1>7. \A l \in GenericLists, u \in TCB :
         Contains(M.ring[l], u) <=> M.generic[u] = l
  BY <1>1, <1>3, <1>4, <1>5, ListsDisjoint DEF StoreOK
<1>8. \A l \in EventLists, u \in TCB :
         Contains(M.ring[l], u) <=> M.event[u] = l
  BY <1>1, <1>2, <1>3, ListsDisjoint DEF StoreOK
<1>. QED BY <1>2, <1>6, <1>7, <1>8 DEF StoreOK, M

LEMMA RemoveEventOK ==
  ASSUME NEW L \in Stores, StoreOK(L), NEW t \in TCB, L.event[t] # NULL
  PROVE  /\ StoreOK(RemoveEvent(L, t))
         /\ RemoveEvent(L, t).event = [L.event EXCEPT ![t] = NULL]
         /\ RemoveEvent(L, t).generic = L.generic
<1> DEFINE M == RemoveEvent(L, t)
           k == L.event[t]
<1>1. k \in EventLists /\ k \in Lists /\ k \notin GenericLists
  BY ListsDisjoint DEF Stores
<1>2. /\ M.event = [L.event EXCEPT ![t] = NULL]
      /\ M.generic = L.generic
      /\ M.ring = [L.ring EXCEPT ![k] = ViewRemove(L.ring[k], t)]
  BY DEF RemoveEvent, Stores
<1>3. \A l \in Lists :
         M.ring[l] = IF l = k THEN ViewRemove(L.ring[k], t) ELSE L.ring[l]
  BY <1>2 DEF Stores
<1>4. \A u \in TCB : M.event[u] = IF u = t THEN NULL ELSE L.event[u]
  BY <1>2 DEF Stores
<1>. HIDE DEF M
<1>5. /\ IsInjective(ViewRemove(L.ring[k], t))
      /\ \A u : Contains(ViewRemove(L.ring[k], t), u)
                  <=> Contains(L.ring[k], u) /\ u # t
  BY <1>1, ViewRemoveProperties DEF StoreOK, Stores
<1>6. \A l \in Lists : IsInjective(M.ring[l])
  BY <1>3, <1>5 DEF StoreOK
<1>7. \A l \in EventLists, u \in TCB :
         Contains(M.ring[l], u) <=> M.event[u] = l
  BY <1>1, <1>3, <1>4, <1>5, ListsDisjoint DEF StoreOK
<1>8. \A l \in GenericLists, u \in TCB :
         Contains(M.ring[l], u) <=> M.generic[u] = l
  BY <1>1, <1>2, <1>3, ListsDisjoint DEF StoreOK
<1>. QED BY <1>2, <1>6, <1>7, <1>8 DEF StoreOK, M

(* `if( pvContainer ) vListRemove': afterwards the event item is in no list. *)
LEMMA RemoveEventIfLinkedOK ==
  ASSUME NEW L \in Stores, StoreOK(L), NEW t \in TCB
  PROVE  /\ StoreOK(RemoveEventIfLinked(L, t))
         /\ RemoveEventIfLinked(L, t).event = [L.event EXCEPT ![t] = NULL]
         /\ RemoveEventIfLinked(L, t).generic = L.generic
<1>1. CASE L.event[t] = NULL
  BY <1>1 DEF RemoveEventIfLinked, Stores
<1>2. CASE L.event[t] # NULL
  BY <1>2, RemoveEventOK DEF RemoveEventIfLinked
<1>. QED BY <1>1, <1>2

(* Ring r is ring s with task t added, in whatever place. *)
Adds(r, s, t) ==
  /\ \A u : Contains(r, u) <=> Contains(s, u) \/ u = t
  /\ IsInjective(s) /\ ~Contains(s, t) => IsInjective(r)

(* What an insertion does to the store, whatever place it chooses: r is the new
   ring of list l. *)
PutGeneric(L, l, r, t) == [L EXCEPT !.ring[l] = r, !.generic[t] = l]
PutEvent(L, l, r, t)   == [L EXCEPT !.ring[l] = r, !.event[t] = l]

LEMMA AddGenericOK ==
  ASSUME NEW L \in Stores, StoreOK(L), NEW t \in TCB, L.generic[t] = NULL,
         NEW l \in GenericLists, NEW r, Adds(r, L.ring[l], t)
  PROVE  /\ StoreOK(PutGeneric(L, l, r, t))
         /\ PutGeneric(L, l, r, t).generic = [L.generic EXCEPT ![t] = l]
         /\ PutGeneric(L, l, r, t).event = L.event
<1> DEFINE M == PutGeneric(L, l, r, t)
<1>1. l \in Lists /\ l \notin EventLists /\ l # NULL
  BY ListsDisjoint
<1>2. /\ M.generic = [L.generic EXCEPT ![t] = l]
      /\ M.event = L.event
      /\ M.ring = [L.ring EXCEPT ![l] = r]
  BY DEF PutGeneric, Stores
<1>. HIDE DEF M
<1>3. /\ \A k \in Lists : M.ring[k] = IF k = l THEN r ELSE L.ring[k]
      /\ \A u \in TCB : M.generic[u] = IF u = t THEN l ELSE L.generic[u]
  BY <1>2 DEF Stores
<1>4. IsInjective(r)
  BY <1>1 DEF StoreOK, Adds
<1>5. \A k \in Lists : IsInjective(M.ring[k])
  BY <1>3, <1>4 DEF StoreOK
<1>6. \A k \in GenericLists, u \in TCB :
         Contains(M.ring[k], u) <=> M.generic[u] = k
  BY <1>1, <1>3, ListsDisjoint DEF StoreOK, Adds
<1>7. \A k \in EventLists, u \in TCB :
         Contains(M.ring[k], u) <=> M.event[u] = k
  BY <1>1, <1>2, <1>3, ListsDisjoint DEF StoreOK
<1>. QED BY <1>2, <1>5, <1>6, <1>7 DEF StoreOK, M

LEMMA AddEventOK ==
  ASSUME NEW L \in Stores, StoreOK(L), NEW t \in TCB, L.event[t] = NULL,
         NEW l \in EventLists, NEW r, Adds(r, L.ring[l], t)
  PROVE  /\ StoreOK(PutEvent(L, l, r, t))
         /\ PutEvent(L, l, r, t).event = [L.event EXCEPT ![t] = l]
         /\ PutEvent(L, l, r, t).generic = L.generic
<1> DEFINE M == PutEvent(L, l, r, t)
<1>1. l \in Lists /\ l \notin GenericLists /\ l # NULL
  BY ListsDisjoint
<1>2. /\ M.event = [L.event EXCEPT ![t] = l]
      /\ M.generic = L.generic
      /\ M.ring = [L.ring EXCEPT ![l] = r]
  BY DEF PutEvent, Stores
<1>. HIDE DEF M
<1>3. /\ \A k \in Lists : M.ring[k] = IF k = l THEN r ELSE L.ring[k]
      /\ \A u \in TCB : M.event[u] = IF u = t THEN l ELSE L.event[u]
  BY <1>2 DEF Stores
<1>4. IsInjective(r)
  BY <1>1 DEF StoreOK, Adds
<1>5. \A k \in Lists : IsInjective(M.ring[k])
  BY <1>3, <1>4 DEF StoreOK
<1>6. \A k \in EventLists, u \in TCB :
         Contains(M.ring[k], u) <=> M.event[u] = k
  BY <1>1, <1>3, ListsDisjoint DEF StoreOK, Adds
<1>7. \A k \in GenericLists, u \in TCB :
         Contains(M.ring[k], u) <=> M.generic[u] = k
  BY <1>1, <1>2, <1>3, ListsDisjoint DEF StoreOK
<1>. QED BY <1>2, <1>5, <1>6, <1>7 DEF StoreOK, M

LEMMA InsertEndGenericOK ==
  ASSUME NEW L \in Stores, StoreOK(L), NEW t \in TCB, L.generic[t] = NULL,
         NEW l \in GenericLists
  PROVE  /\ StoreOK(InsertEndGeneric(L, l, t))
         /\ InsertEndGeneric(L, l, t).generic = [L.generic EXCEPT ![t] = l]
         /\ InsertEndGeneric(L, l, t).event = L.event
<1> DEFINE r == ViewInsertEnd(L.ring[l], t)
<1>1. L.ring[l] \in Seq(TCB)
  BY ListsDisjoint DEF Stores
<1>2. Adds(r, L.ring[l], t)
  BY <1>1, ViewInsertEndProperties DEF Adds
<1>3. InsertEndGeneric(L, l, t) = PutGeneric(L, l, r, t)
  BY DEF InsertEndGeneric, PutGeneric
<1>. HIDE DEF r
<1>. QED BY <1>2, <1>3, AddGenericOK

LEMMA InsertEndEventOK ==
  ASSUME NEW L \in Stores, StoreOK(L), NEW t \in TCB, L.event[t] = NULL,
         NEW l \in EventLists
  PROVE  /\ StoreOK(InsertEndEvent(L, l, t))
         /\ InsertEndEvent(L, l, t).event = [L.event EXCEPT ![t] = l]
         /\ InsertEndEvent(L, l, t).generic = L.generic
<1> DEFINE r == ViewInsertEnd(L.ring[l], t)
<1>1. L.ring[l] \in Seq(TCB)
  BY ListsDisjoint DEF Stores
<1>2. Adds(r, L.ring[l], t)
  BY <1>1, ViewInsertEndProperties DEF Adds
<1>3. InsertEndEvent(L, l, t) = PutEvent(L, l, r, t)
  BY DEF InsertEndEvent, PutEvent
<1>. HIDE DEF r
<1>. QED BY <1>2, <1>3, AddEventOK

LEMMA InsertGenericOK ==
  ASSUME NEW L \in Stores, StoreOK(L), NEW t \in TCB, L.generic[t] = NULL,
         NEW l \in GenericLists, NEW value
  PROVE  /\ StoreOK(InsertGeneric(L, l, value, t))
         /\ InsertGeneric(L, l, value, t).generic = [L.generic EXCEPT ![t] = l]
         /\ InsertGeneric(L, l, value, t).event = L.event
<1> DEFINE r == ViewInsert(L.ring[l], value, t)
<1>1. L.ring[l] \in Seq(TCB)
  BY ListsDisjoint DEF Stores
<1>2. Adds(r, L.ring[l], t)
  BY <1>1, ViewInsertProperties DEF Adds
<1>3. InsertGeneric(L, l, value, t) = PutGeneric(L, l, r, t)
  BY DEF InsertGeneric, PutGeneric
<1>. HIDE DEF r
<1>. QED BY <1>2, <1>3, AddGenericOK

LEMMA InsertEventOK ==
  ASSUME NEW L \in Stores, StoreOK(L), NEW t \in TCB, L.event[t] = NULL,
         NEW l \in EventLists, NEW value
  PROVE  /\ StoreOK(InsertEvent(L, l, value, t))
         /\ InsertEvent(L, l, value, t).event = [L.event EXCEPT ![t] = l]
         /\ InsertEvent(L, l, value, t).generic = L.generic
<1> DEFINE r == ViewInsert(L.ring[l], value, t)
<1>1. L.ring[l] \in Seq(TCB)
  BY ListsDisjoint DEF Stores
<1>2. Adds(r, L.ring[l], t)
  BY <1>1, ViewInsertProperties DEF Adds
<1>3. InsertEvent(L, l, value, t) = PutEvent(L, l, r, t)
  BY DEF InsertEvent, PutEvent
<1>. HIDE DEF r
<1>. QED BY <1>2, <1>3, AddEventOK

LEMMA NextEntryOK ==
  ASSUME NEW L \in Stores, StoreOK(L), NEW l \in Lists, ~IsEmpty(L, l)
  PROVE  /\ StoreOK(NextEntry(L, l))
         /\ NextEntry(L, l).generic = L.generic
         /\ NextEntry(L, l).event = L.event
<1> DEFINE M == NextEntry(L, l)
<1>1. /\ M.generic = L.generic
      /\ M.event = L.event
      /\ \A k \in Lists :
            M.ring[k] = IF k = l THEN ViewNext(L.ring[l]) ELSE L.ring[k]
  BY DEF NextEntry, Stores
<1>2. /\ \A u : Contains(ViewNext(L.ring[l]), u) <=> Contains(L.ring[l], u)
      /\ IsInjective(ViewNext(L.ring[l]))
  BY ViewNextProperties DEF Stores, IsEmpty, StoreOK
<1>. HIDE DEF M
<1>3. \A k \in Lists : IsInjective(M.ring[k])
  BY <1>1, <1>2 DEF StoreOK
<1>4. \A k \in Lists : \A u :
         Contains(M.ring[k], u) <=> Contains(L.ring[k], u)
  BY <1>1, <1>2
<1>5. StoreOK(M)
  BY <1>1, <1>3, <1>4, ListsDisjoint DEF StoreOK
<1>. QED BY <1>1, <1>5 DEF M

(* In a consistent store the head of a list is a task whose item names it. *)
LEMMA OwnerOfHeadOK ==
  ASSUME NEW L \in Stores, StoreOK(L), NEW l \in Lists, ~IsEmpty(L, l)
  PROVE  /\ OwnerOfHead(L, l) \in TCB
         /\ l \in GenericLists => L.generic[OwnerOfHead(L, l)] = l
         /\ l \in EventLists => L.event[OwnerOfHead(L, l)] = l
BY OwnerOfHeadIsTask DEF StoreOK

-----------------------------------------------------------------------------
(* The control points.  A module that builds on Kernel may add points and loops
   of its own, and take the steps of Kernel for the rest: the lemmas below hold
   of those steps there too, since they ask no more than Typed. *)

(* The points at which the running task has the scheduler suspended: those of
   Kernel, and the one between the two looks of a blocking take at a mutex. *)
Windows == {"delay", "until", "insert", "place", "placeGeneric", "placeInsert",
            "unlock", "resume", "reapRead", "reapEmpty", "reapFull", "inherit"}

CallPoints == {"app", "yield", "reap", "idleYield", "taken"} \cup Windows

CallPhases == {"run", "drain", "replay", "tickWake", "replayWake", "give"}

(* TypeOK but for the control points that may be added. *)
Typed ==
  /\ store \in Stores
  /\ xItemValue \in [TCB -> Tick]
  /\ uxPriority \in [TCB -> Priority]
  /\ allocated \subseteq TCB
  /\ pxCurrentTCB \in TCB \cup {NULL}
  /\ xSchedulerRunning \in BOOLEAN
  /\ pxDelayedTaskList \in DelayLists
  /\ pxOverflowDelayedTaskList \in DelayLists
  /\ xTickCount \in Tick
  /\ xNumOfOverflows \in 0 .. OverflowCount - 1
  /\ uxTopReadyPriority \in Priority
  /\ uxTopUsedPriority \in Priority
  /\ uxSchedulerSuspended \in Nat
  /\ uxMissedTicks \in 0 .. MaxMissedTicks
  /\ xMissedYield \in BOOLEAN
  /\ uxCurrentNumberOfTasks \in Int
  /\ uxTasksDeleted \in Int
  /\ pc \in [TCB -> CallPoints]
  /\ phase \in CallPhases
  /\ yieldRequired \in BOOLEAN
  /\ yieldPending \in BOOLEAN
  /\ queueLock \in [Event -> {"unlocked", "locked", "posted"}]
  /\ ticksLeft \in [TCB -> Tick]
  /\ ticksArrived \in Tick

(* Where only Kernel's steps are taken, no other point is reached. *)
KernelPoints == pc \in [TCB -> Points] /\ phase \in Phases

LEMMA TypeParts == TypeOK <=> Typed /\ KernelPoints
<1>1. Points \subseteq CallPoints /\ Phases \subseteq CallPhases
  BY DEF Points, WindowPoints, CallPoints, Windows, Phases, CallPhases
<1>2. pc \in [TCB -> Points] => pc \in [TCB -> CallPoints]
  BY <1>1
<1>. QED BY <1>1, <1>2 DEF TypeOK, Typed, KernelPoints

-----------------------------------------------------------------------------
(* The invariant that makes SchedulerLock inductive. *)

(* SchedulerLock, of every window. *)
WindowsAlone ==
  \A t \in TCB :
    pc[t] \in Windows =>
      /\ t = pxCurrentTCB
      /\ phase = "run" => uxSchedulerSuspended = 1

(* Before the scheduler starts no task is inside an API call. *)
QuietBeforeStart ==
  ~xSchedulerRunning =>
    /\ phase = "run"
    /\ uxSchedulerSuspended = 0
    /\ \A t \in TCB : pc[t] = "app"

(* The loops with interrupts masked are those of a scheduler that is not
   suspended: the tick interrupt's, and xTaskResumeAll's after the last
   decrement. *)
MaskedUnsuspended == phase # "run" => uxSchedulerSuspended = 0

(* The tick interrupt does its work between calls, never inside one that has
   the scheduler suspended. *)
TickOutsideWindows ==
  phase \in {"tickWake", "give"} => \A t \in TCB : pc[t] \notin Windows

(* The tick being replayed is still counted as missed. *)
ReplayedTickCounted == phase = "replayWake" => uxMissedTicks > 0

(* The application suspends the scheduler, or a kernel function does. *)
LockHolder ==
  phase = "run" /\ uxSchedulerSuspended > 0 =>
    pxCurrentTCB \in Task \/ pc[pxCurrentTCB] \in Windows

(* WindowsAlone made inductive. *)
LockInv ==
  /\ WindowsAlone
  /\ QuietBeforeStart
  /\ MaskedUnsuspended
  /\ TickOutsideWindows
  /\ ReplayedTickCounted
  /\ LockHolder
  /\ xSchedulerRunning => pxCurrentTCB \in TCB

-----------------------------------------------------------------------------
(* Arithmetic of portTickType *)

LEMMA TickArithmetic ==
  /\ 0 \in Tick
  /\ \A n \in Int : n % TickCount \in Tick
  /\ \A n \in Nat : n < TickCount => n % TickCount = n
  /\ \A n \in Nat : TickCount <= n /\ n < 2 * TickCount =>
        n % TickCount = n - TickCount
<1>. QED BY CountAssumption DEF Tick

LEMMA CappedType == \A p \in Nat : Capped(p) \in Priority
  BY PrioritiesAssumption DEF Capped, Priority

LEMMA LargerType == \A p, q \in Priority : Larger(p, q) \in Priority
  BY DEF Larger

(* The two times that vTaskDelayUntil compares, without the wrap: the previous
   wake time lies age ticks before now, the next one increment ticks after. *)
LEMMA UntilTimes ==
  ASSUME NEW now \in Tick, NEW age \in Tick, NEW increment \in Tick \ {0}
  PROVE  LET previous == (now + TickCount - age) % TickCount
         IN  /\ previous = IF age <= now THEN now - age
                           ELSE now + TickCount - age
             /\ previous \in Tick
             /\ (previous + increment) % TickCount =
                  IF previous + increment < TickCount
                  THEN previous + increment
                  ELSE previous + increment - TickCount
<1> DEFINE previous == (now + TickCount - age) % TickCount
<1>1. previous = IF age <= now THEN now - age ELSE now + TickCount - age
  <2> DEFINE n == now + TickCount - age
  <2>1. n \in Nat /\ n < 2 * TickCount /\ (age <= now <=> TickCount <= n)
    BY CountAssumption DEF Tick
  <2>2. n - TickCount = now - age
    BY CountAssumption DEF Tick
  <2>. HIDE DEF n
  <2>3. n % TickCount = IF age <= now THEN n - TickCount ELSE n
    BY <2>1, TickArithmetic, CountAssumption
  <2>. QED BY <2>2, <2>3 DEF n
<1>2. previous \in Tick
  BY <1>1, CountAssumption DEF Tick
<1>. HIDE DEF previous
<1>3. (previous + increment) % TickCount =
        IF previous + increment < TickCount THEN previous + increment
        ELSE previous + increment - TickCount
  BY <1>2, TickArithmetic, CountAssumption, SMTT(30) DEF Tick
<1>. QED BY <1>1, <1>2, <1>3 DEF previous

(* vTaskDelayUntil decides rightly from the wrapped times: it blocks exactly
   when the time asked for is still ahead, that is, when fewer ticks than
   xTimeIncrement have passed since the previous wake time, and less than one
   full count. *)
THEOREM DelayUntilDecides ==
  ASSUME NEW now \in Tick, NEW age \in Tick, NEW increment \in Tick \ {0}
  PROVE  LET previous == (now + TickCount - age) % TickCount
             wake == (previous + increment) % TickCount
         IN  ShouldDelay(previous, wake, now) <=> age < increment
<1> DEFINE previous == (now + TickCount - age) % TickCount
           wake == (previous + increment) % TickCount
<1>1. /\ previous = IF age <= now THEN now - age ELSE now + TickCount - age
      /\ wake = IF previous + increment < TickCount THEN previous + increment
                ELSE previous + increment - TickCount
  BY UntilTimes
<1>. HIDE DEF previous, wake
<1>2. ShouldDelay(previous, wake, now) <=> age < increment
  BY <1>1, CountAssumption DEF Tick, ShouldDelay
<1>. QED BY <1>2 DEF wake, previous

(* So some ticks are left, and the wake time wraps at most once. *)
LEMMA UntilTicksLeft ==
  ASSUME NEW now \in Tick, NEW age \in Tick, NEW increment \in Tick \ {0},
         ShouldDelay((now + TickCount - age) % TickCount,
                     (((now + TickCount - age) % TickCount) + increment)
                        % TickCount,
                     now)
  PROVE  LET left == increment - age
         IN  /\ left \in Tick \ {0}
             /\ (((now + TickCount - age) % TickCount) + increment) % TickCount
                  = IF now + left < TickCount THEN now + left
                    ELSE now + left - TickCount
<1> DEFINE previous == (now + TickCount - age) % TickCount
           wake == (previous + increment) % TickCount
<1>1. /\ previous = IF age <= now THEN now - age ELSE now + TickCount - age
      /\ wake = IF previous + increment < TickCount THEN previous + increment
                ELSE previous + increment - TickCount
  BY UntilTimes
<1>2. age < increment
  BY DelayUntilDecides
<1>. HIDE DEF previous, wake
<1>3. increment - age \in Tick \ {0}
  BY <1>2, CountAssumption DEF Tick
<1>4. wake = IF now + (increment - age) < TickCount
             THEN now + (increment - age)
             ELSE now + (increment - age) - TickCount
  BY <1>1, <1>2, CountAssumption DEF Tick
<1>. QED BY <1>3, <1>4 DEF wake, previous

-----------------------------------------------------------------------------
(* Types of the helpers *)

LEMMA GotoType ==
  ASSUME pc \in [TCB -> CallPoints], NEW t, NEW point \in CallPoints,
         Goto(t, point)
  PROVE  pc' \in [TCB -> CallPoints]
  BY DEF Goto

LEMMA EndDelayType ==
  ASSUME Typed, NEW t, EndDelay(t)
  PROVE  xItemValue' \in [TCB -> Tick] /\ ticksLeft' \in [TCB -> Tick]
  BY TickArithmetic DEF Typed, EndDelay

LEMMA AddTaskType ==
  ASSUME Typed, NEW L \in Stores, NEW t \in TCB, NEW p \in Priority,
         AddTaskToReadyQueue(L, t, p)
  PROVE  store' \in Stores /\ uxTopReadyPriority' \in Priority
<1>1. pxReadyTasksLists(p) \in GenericLists
  BY ListNames
<1>. QED BY <1>1, InsertEndType, LargerType DEF Typed, AddTaskToReadyQueue

LEMMA CreateType ==
  ASSUME Typed, NEW t \in TCB, NEW p \in RequestedPriority, Create(t, p),
         xSchedulerRunning' \in BOOLEAN, pc' \in [TCB -> CallPoints],
         xTickCount' \in Tick, ticksArrived' \in Tick,
         yieldPending' \in BOOLEAN
  PROVE  Typed'
<1> DEFINE first == pxCurrentTCB = NULL /\ uxCurrentNumberOfTasks + 1 = 1
           L == IF first THEN EmptyStore ELSE store
<1>1. Capped(p) \in Priority
  BY CappedType DEF RequestedPriority
<1>2. L \in Stores
  BY EmptyStoreType DEF Typed
<1>3. AddTaskToReadyQueue(L, t, Capped(p))
  BY DEF Create
<1>4. store' \in Stores /\ uxTopReadyPriority' \in Priority
  BY <1>1, <1>2, <1>3, AddTaskType
<1>5. /\ uxPriority' \in [TCB -> Priority]
      /\ uxTopUsedPriority' \in Priority
      /\ uxCurrentNumberOfTasks' \in Int
      /\ allocated' \subseteq TCB
      /\ pxCurrentTCB' \in TCB \cup {NULL}
  BY <1>1, LargerType DEF Create, Typed
<1>6. /\ pxDelayedTaskList' \in DelayLists
      /\ pxOverflowDelayedTaskList' \in DelayLists
  BY ListNames DEF Create, Typed
<1>. QED BY <1>4, <1>5, <1>6
         DEF Create, Typed, delayVars, suspendVars, loopVars

LEMMA UnlinkToWakeAtType ==
  ASSUME Typed, NEW t \in TCB, NEW wake \in Tick, NEW left \in Tick,
         UnlinkToWakeAt(t, wake, left)
  PROVE  /\ store' \in Stores
         /\ xItemValue' \in [TCB -> Tick]
         /\ ticksLeft' \in [TCB -> Tick]
         /\ pc' \in [TCB -> CallPoints]
<1>1. "insert" \in CallPoints
  BY DEF CallPoints, Windows
<1>. QED BY <1>1, RemoveGenericType, GotoType DEF Typed, UnlinkToWakeAt

LEMMA RemoveFromEventListType ==
  ASSUME Typed, NEW e \in Event, HasWaiter(e), RemoveFromEventList(e)
  PROVE  /\ store' \in Stores
         /\ uxTopReadyPriority' \in Priority
         /\ xItemValue' \in [TCB -> Tick]
         /\ ticksLeft' \in [TCB -> Tick]
<1> DEFINE t == OwnerOfHead(store, EventList(e))
           L == RemoveEvent(store, t)
<1>1. EventList(e) \in Lists /\ xPendingReadyList \in EventLists
  BY ListNames, ListsDisjoint
<1>2. t \in TCB
  BY <1>1, OwnerOfHeadIsTask DEF Typed, HasWaiter
<1>3. L \in Stores
  BY <1>2, RemoveEventType DEF Typed
<1>4. CASE ListsAccessible
  <2>1. /\ AddTaskToReadyQueue(RemoveGeneric(L, t), t, uxPriority[t])
        /\ EndDelay(t)
    BY <1>4 DEF RemoveFromEventList
  <2>. HIDE DEF t, L
  <2>2. RemoveGeneric(L, t) \in Stores /\ uxPriority[t] \in Priority
    BY <1>2, <1>3, RemoveGenericType DEF Typed
  <2>. QED BY <1>2, <2>1, <2>2, AddTaskType, EndDelayType
<1>5. CASE ~ListsAccessible
  <2>1. /\ store' = InsertEndEvent(L, xPendingReadyList, t)
        /\ UNCHANGED <<uxTopReadyPriority, delayVars>>
    BY <1>5 DEF RemoveFromEventList
  <2>. HIDE DEF t, L
  <2>. QED BY <1>1, <1>2, <1>3, <2>1, InsertEndType DEF Typed, delayVars
<1>. QED BY <1>4, <1>5

LEMMA IncrementTickType ==
  ASSUME Typed, IncrementTick
  PROVE  /\ xTickCount' \in Tick
         /\ pxDelayedTaskList' \in DelayLists
         /\ pxOverflowDelayedTaskList' \in DelayLists
         /\ xNumOfOverflows' \in 0 .. OverflowCount - 1
         /\ ticksLeft' \in [TCB -> Tick]
<1>1. xTickCount' \in Tick
  BY TickArithmetic DEF Typed, IncrementTick, NextTick, Tick
<1>2. (xNumOfOverflows + 1) % OverflowCount \in 0 .. OverflowCount - 1
  BY CountAssumption DEF Typed
<1>3. \A n \in Tick : n > 0 => n - 1 \in Tick
  BY CountAssumption DEF Tick
<1>4. ticksLeft' \in [TCB -> Tick]
  BY <1>3 DEF Typed, IncrementTick
<1>. QED BY <1>1, <1>2, <1>4 DEF Typed, IncrementTick, SwapDelayLists

LEMMA ResumeGenericType ==
  ASSUME Typed, NEW t \in TCB,
         AddTaskToReadyQueue(RemoveGeneric(store, t), t, uxPriority[t])
  PROVE  store' \in Stores /\ uxTopReadyPriority' \in Priority
<1>1. RemoveGeneric(store, t) \in Stores /\ uxPriority[t] \in Priority
  BY RemoveGenericType DEF Typed
<1>. QED BY <1>1, AddTaskType

LEMMA UnlinkTaskType ==
  ASSUME Typed, NEW t \in TCB
  PROVE  RemoveEventIfLinked(RemoveGeneric(store, t), t) \in Stores
  BY RemoveGenericType, RemoveEventType DEF Typed



-----------------------------------------------------------------------------
(* Every step keeps the types: one lemma for each group of actions. *)

LEMMA BootTypes ==
  ASSUME Typed, Boot
  PROVE  Typed'
<1>1. ASSUME NEW t \in Task, NEW p \in RequestedPriority,
             CreateBeforeStart(t, p)
      PROVE  Typed'
  <2>1. Create(t, p) /\ t \in TCB
    BY <1>1 DEF CreateBeforeStart, TCB
  <2>. QED BY <1>1, <2>1, CreateType DEF CreateBeforeStart, Typed
<1>2. ASSUME StartScheduler
      PROVE  Typed'
  <2>1. Create(Idle, 0) /\ Idle \in TCB /\ 0 \in RequestedPriority
    BY <1>2, PrioritiesAssumption DEF StartScheduler, TCB, RequestedPriority
  <2>. QED BY <1>2, <2>1, CreateType, TickArithmetic DEF StartScheduler, Typed
<1>. QED BY <1>1, <1>2 DEF Boot

LEMMA SuspendAllTypes ==
  ASSUME Typed, NEW t \in TCB, NEW point \in CallPoints, SuspendAll(t, point),
         queueLock' \in [Event -> {"unlocked", "locked", "posted"}]
  PROVE  Typed'
<1>1. pc' \in [TCB -> CallPoints]
  BY GotoType DEF SuspendAll, Typed
<1>. QED BY <1>1 DEF SuspendAll, Typed, tickVars, listVars, delayVars,
                     taskVars, loopVars, runVars

LEMMA RequestSwitchTypes ==
  ASSUME Typed, NEW t \in TCB, RequestSwitch(t)
  PROVE  Typed'
<1>1. pc' \in [TCB -> CallPoints]
  BY GotoType DEF RequestSwitch, Typed, CallPoints
<1>. QED BY <1>1 DEF RequestSwitch, Typed, tickVars, listVars, delayVars,
                     taskVars, suspendVars, loopVars, runVars

LEMMA AfterResumeAllType ==
  ASSUME NEW point, NEW yielded
  PROVE  AfterResumeAll(point, yielded)
           \in {"app", "yield", "reap", "idleYield"}
  BY DEF AfterResumeAll

LEMMA CallStepTypes ==
  ASSUME Typed, LockInv, NEW t \in TCB, CallStep(t)
  PROVE  Typed'
<1>. USE DEF tickVars, listVars, delayVars, taskVars, suspendVars, loopVars,
             runVars
<1>0. /\ {"app", "yield", "insert", "place", "placeGeneric", "placeInsert",
          "unlock", "resume"} \subseteq CallPoints
      /\ xSuspendedTaskList \in GenericLists
      /\ \A e \in Event : EventList(e) \in EventLists
  BY ListNames DEF CallPoints, Windows
<1>1. CASE YieldWithinAPI(t)
  BY <1>1, RequestSwitchTypes DEF YieldWithinAPI
<1>2. CASE DelayUnlink(t)
  <2>1. PICK xTicksToDelay \in Tick \ {0} :
           UnlinkToWakeAt(t, (xTickCount + xTicksToDelay) % TickCount,
                          xTicksToDelay)
    BY <1>2 DEF DelayUnlink
  <2>2. (xTickCount + xTicksToDelay) % TickCount \in Tick
    BY TickArithmetic DEF Typed, Tick
  <2>. QED BY <1>2, <2>1, <2>2, UnlinkToWakeAtType DEF DelayUnlink, Typed
<1>3. CASE UntilDecide(t)
  <2>1. PICK age \in Tick, xTimeIncrement \in Tick \ {0} :
           LET previous == (xTickCount + TickCount - age) % TickCount
               wake == (previous + xTimeIncrement) % TickCount
           IN  IF ShouldDelay(previous, wake, xTickCount)
               THEN UnlinkToWakeAt(t, wake, xTimeIncrement - age)
               ELSE Goto(t, "resume") /\ UNCHANGED <<store, delayVars>>
    BY <1>3 DEF UntilDecide
  <2> DEFINE previous == (xTickCount + TickCount - age) % TickCount
             wake == (previous + xTimeIncrement) % TickCount
  <2>2. wake \in Tick
    BY TickArithmetic, CountAssumption DEF Typed, Tick
  <2>3. CASE ShouldDelay(previous, wake, xTickCount)
    <3>1. UnlinkToWakeAt(t, wake, xTimeIncrement - age)
      BY <2>1, <2>3
    <3>2. xTimeIncrement - age \in Tick
      BY <2>3, UntilTicksLeft DEF Typed
    <3>. HIDE DEF wake
    <3>. QED BY <1>3, <2>2, <3>1, <3>2, UnlinkToWakeAtType
             DEF UntilDecide, Typed
  <2>4. CASE ~ShouldDelay(previous, wake, xTickCount)
    <3>1. Goto(t, "resume") /\ UNCHANGED <<store, delayVars>>
      BY <2>1, <2>4
    <3>. QED BY <1>0, <1>3, <3>1, GotoType DEF UntilDecide, Typed
  <2>. QED BY <2>3, <2>4
<1>4. CASE DelayInsert(t)
  <2>1. DelayListFor(xItemValue[t]) \in GenericLists
    BY ListNames DEF DelayListFor, Typed
  <2>2. store' \in Stores
    <3>1. \A value : InsertGeneric(store, DelayListFor(xItemValue[t]), value, t)
                       \in Stores
      BY <2>1, InsertType DEF Typed
    <3>. QED BY <1>4, <3>1 DEF DelayInsert
  <2>. QED BY <1>0, <1>4, <2>2, GotoType DEF DelayInsert, Typed
<1>5. CASE PlaceEventItem(t)
  <2>1. store' \in Stores
    <3>1. \A e \in Event : \A value :
             InsertEvent(store, EventList(e), value, t) \in Stores
      BY <1>0, InsertType DEF Typed
    <3>. QED BY <1>5, <3>1 DEF PlaceEventItem
  <2>. QED BY <1>0, <1>5, <2>1, GotoType DEF PlaceEventItem, Typed
<1>6. CASE PlaceUnlink(t)
  <2>1. store' \in Stores
    BY <1>6, RemoveGenericType DEF PlaceUnlink, Typed
  <2>. QED BY <1>0, <1>6, <2>1, GotoType DEF PlaceUnlink, Typed
<1>7. CASE PlaceInsert(t)
  <2>1. PICK xTicksToWait \in Tick \ {0} :
          IF xTicksToWait = portMAX_DELAY /\ "vTaskSuspend" \in Include
          THEN /\ store' = InsertEndGeneric(store, xSuspendedTaskList, t)
               /\ UNCHANGED delayVars
          ELSE /\ xItemValue' = [xItemValue EXCEPT
                      ![t] = (xTickCount + xTicksToWait) % TickCount]
               /\ ticksLeft' = [ticksLeft EXCEPT ![t] = xTicksToWait]
               /\ store' = InsertGeneric(store, DelayListFor(xItemValue'[t]),
                                         xItemValue', t)
    BY <1>7 DEF PlaceInsert
  <2>2. (xTickCount + xTicksToWait) % TickCount \in Tick
    BY TickArithmetic DEF Typed, Tick
  <2>3. DelayListFor(xItemValue'[t]) \in GenericLists
    BY ListNames DEF DelayListFor, Typed
  <2>4. \A value : InsertGeneric(store, DelayListFor(xItemValue'[t]), value, t)
                     \in Stores
    BY <2>3, InsertType DEF Typed
  <2>5. InsertEndGeneric(store, xSuspendedTaskList, t) \in Stores
    BY <1>0, InsertEndType DEF Typed
  <2>6. store' \in Stores
    BY <2>1, <2>4, <2>5
  <2>7. xItemValue' \in [TCB -> Tick] /\ ticksLeft' \in [TCB -> Tick]
    BY <2>1, <2>2 DEF Typed
  <2>. QED BY <1>0, <1>7, <2>6, <2>7, GotoType DEF PlaceInsert, Typed
<1>8. CASE QueueUnlock(t)
  <2>1. /\ store' \in Stores
        /\ uxTopReadyPriority' \in Priority
        /\ xItemValue' \in [TCB -> Tick]
        /\ ticksLeft' \in [TCB -> Tick]
        /\ xMissedYield' \in BOOLEAN
        /\ queueLock' \in [Event -> {"unlocked", "locked", "posted"}]
    BY <1>8, RemoveFromEventListType DEF QueueUnlock, UnblocksHigher, Typed
  <2>. QED BY <1>0, <1>8, <2>1, GotoType DEF QueueUnlock, Typed
<1>9. CASE ResumeAll(t)
  <2>1. uxSchedulerSuspended > 0
    BY <1>9 DEF ResumeAll, Runs, InterruptsEnabled, LockInv, WindowsAlone,
                Windows
  <2>2. uxSchedulerSuspended' \in Nat
    BY <1>9, <2>1 DEF ResumeAll, Typed
  <2>3. pc' \in [TCB -> CallPoints] /\ phase' \in CallPhases
    <3>1. AfterResumeAll(pc[t], FALSE) \in CallPoints
      BY AfterResumeAllType DEF CallPoints
    <3>. QED BY <1>9, <3>1, GotoType DEF ResumeAll, Typed, CallPhases
  <2>. QED BY <1>9, <2>2, <2>3 DEF ResumeAll, Typed
<1>. QED BY <1>1, <1>2, <1>3, <1>4, <1>5, <1>6, <1>7, <1>8, <1>9 DEF CallStep

LEMMA CallTypes ==
  ASSUME Typed, NEW t \in Task, Call(t)
  PROVE  Typed'
<1>. USE DEF tickVars, listVars, delayVars, taskVars, suspendVars, loopVars,
             runVars
<1>0. /\ Task \subseteq TCB
      /\ {"app", "yield", "delay", "until", "place"} \subseteq CallPoints
      /\ xSuspendedTaskList \in GenericLists
      /\ xTasksWaitingTermination \in GenericLists
  BY ListNames DEF TCB, CallPoints, Windows
<1>1. ASSUME NEW u \in Task, NEW p \in RequestedPriority, CreateTask(t, u, p)
      PROVE  Typed'
  <2>1. pc' \in [TCB -> CallPoints]
    BY <1>0, <1>1 DEF CreateTask, Typed
  <2>. QED BY <1>0, <1>1, <2>1, CreateType DEF CreateTask, Typed
<1>2. CASE AppSuspendAll(t)
  BY <1>0, <1>2, SuspendAllTypes DEF AppSuspendAll, Typed
<1>3. CASE TaskYield(t)
  BY <1>0, <1>3, RequestSwitchTypes DEF TaskYield
<1>4. CASE DelayZero(t)
  BY <1>0, <1>4, GotoType DEF DelayZero, Typed
<1>5. CASE DelaySuspend(t) \/ DelayUntilSuspend(t)
  BY <1>0, <1>5, SuspendAllTypes DEF DelaySuspend, DelayUntilSuspend, Typed
<1>6. ASSUME NEW e \in Event, QueueSuspend(t, e)
      PROVE  Typed'
  BY <1>0, <1>6, SuspendAllTypes DEF QueueSuspend, Typed
<1>7. ASSUME NEW e \in Event, TaskSignals(t, e)
      PROVE  Typed'
  BY <1>7, RemoveFromEventListType DEF TaskSignals, UnblocksHigher, Typed
<1>8. ASSUME NEW u \in Task, SuspendTask(t, u)
      PROVE  Typed'
  <2>1. store' \in Stores
    BY <1>0, <1>8, UnlinkTaskType, InsertEndType DEF SuspendTask
  <2>2. pc' \in [TCB -> CallPoints]
    BY <1>0, <1>8, GotoType DEF SuspendTask, Typed
  <2>3. xItemValue' \in [TCB -> Tick] /\ ticksLeft' \in [TCB -> Tick]
    BY <1>8, EndDelayType DEF SuspendTask
  <2>. QED BY <1>8, <2>1, <2>2, <2>3 DEF SuspendTask, Typed
<1>9. ASSUME NEW u \in Task, ResumeTask(t, u)
      PROVE  Typed'
  <2>1. store' \in Stores /\ uxTopReadyPriority' \in Priority
    BY <1>0, <1>9, ResumeGenericType DEF ResumeTask
  <2>. QED BY <1>9, <2>1 DEF ResumeTask, Typed
<1>10. ASSUME NEW u \in Task, DeleteTask(t, u)
       PROVE  Typed'
  <2>1. store' \in Stores /\ uxTasksDeleted' \in Int
    BY <1>0, <1>10, UnlinkTaskType, InsertEndType
       DEF DeleteTask, Terminate, Typed
  <2>2. pc' \in [TCB -> CallPoints]
    BY <1>0, <1>10, GotoType DEF DeleteTask, Typed
  <2>3. xItemValue' \in [TCB -> Tick] /\ ticksLeft' \in [TCB -> Tick]
    BY <1>10, EndDelayType DEF DeleteTask
  <2>. QED BY <1>10, <2>1, <2>2, <2>3 DEF DeleteTask, Typed
<1>11. ASSUME NEW u \in Task, NEW p \in RequestedPriority, PrioritySet(t, u, p)
       PROVE  Typed'
  <2>1. Capped(p) \in Priority
    BY CappedType DEF RequestedPriority
  <2>2. uxPriority' \in [TCB -> Priority]
    BY <1>11, <2>1 DEF PrioritySet, Typed
  <2>3. RemoveGeneric(store, u) \in Stores
    BY <1>0, RemoveGenericType DEF Typed
  <2>4. store' \in Stores /\ uxTopReadyPriority' \in Priority
    BY <1>0, <1>11, <2>1, <2>3, AddTaskType DEF PrioritySet, Typed
  <2>5. yieldPending' \in BOOLEAN
    BY <1>11 DEF PrioritySet
  <2>. QED BY <1>11, <2>2, <2>4, <2>5 DEF PrioritySet, Typed
<1>. QED BY <1>1, <1>2, <1>3, <1>4, <1>5, <1>6, <1>7, <1>8, <1>9, <1>10, <1>11
         DEF Call

LEMMA ReapTypes ==
  ASSUME Typed, NEW t \in TCB, Reap(t)
  PROVE  Typed'
<1>1. Idle \in TCB /\ "idleYield" \in CallPoints
  BY DEF TCB, CallPoints
<1>2. store' \in Stores
  BY RemoveGenericType DEF Reap, Typed
<1>. QED BY <1>1, <1>2, GotoType
         DEF Reap, Typed, tickVars, delayVars, suspendVars, loopVars, runVars

LEMMA IdleTypes ==
  ASSUME Typed, IdleStep
  PROVE  Typed'
<1>. USE DEF tickVars, listVars, delayVars, taskVars, suspendVars, loopVars,
             runVars
<1>0. /\ Idle \in TCB
      /\ {"app", "reapRead", "reapEmpty", "reapFull", "idleYield"}
            \subseteq CallPoints
      /\ xTasksWaitingTermination \in Lists
  BY ListNames, ListsDisjoint DEF TCB, CallPoints, Windows
<1>1. CASE IdleSuspend
  BY <1>0, <1>1, SuspendAllTypes DEF IdleSuspend, Typed
<1>2. CASE IdleReadList
  BY <1>0, <1>2, GotoType DEF IdleReadList, Typed
<1>3. CASE IdleReap
  <2>1. OwnerOfHead(store, xTasksWaitingTermination) \in TCB
    BY <1>0, <1>3, OwnerOfHeadIsTask DEF IdleReap, Typed
  <2>. QED BY <1>3, <2>1, ReapTypes DEF IdleReap
<1>4. CASE IdleLoop
  BY <1>0, <1>4, GotoType DEF IdleLoop, Typed
<1>. QED BY <1>1, <1>2, <1>3, <1>4 DEF IdleStep

LEMMA MaskedTypes ==
  ASSUME Typed, LockInv, MaskedStep
  PROVE  Typed'
<1>. USE DEF tickVars, listVars, delayVars, taskVars, suspendVars, loopVars,
             runVars
<1>0. xPendingReadyList \in Lists
  BY ListNames, ListsDisjoint
<1>1. CASE DrainPending
  <2> DEFINE t == OwnerOfHead(store, xPendingReadyList)
             L == RemoveGeneric(RemoveEvent(store, t), t)
  <2>1. t \in TCB
    BY <1>0, <1>1, OwnerOfHeadIsTask DEF DrainPending, PendingDrained, Typed
  <2>2. /\ AddTaskToReadyQueue(L, t, uxPriority[t])
        /\ EndDelay(t)
        /\ yieldRequired' \in BOOLEAN
    BY <1>1 DEF DrainPending, Typed
  <2>3. L \in Stores
    BY <2>1, RemoveGenericType, RemoveEventType DEF Typed
  <2>. HIDE DEF t, L
  <2>4. store' \in Stores /\ uxTopReadyPriority' \in Priority
    BY <2>1, <2>2, <2>3, AddTaskType DEF Typed
  <2>. QED BY <1>1, <2>2, <2>4, EndDelayType DEF DrainPending, Typed
<1>2. CASE DrainDone
  BY <1>2 DEF DrainDone, Typed, CallPhases
<1>3. CASE ReplayTick
  BY <1>3, IncrementTickType DEF ReplayTick, Typed, CallPhases
<1>4. CASE ReplayTickDone
  <2>1. uxMissedTicks' \in 0 .. MaxMissedTicks
    BY <1>4, CountAssumption
       DEF ReplayTickDone, Typed, LockInv, ReplayedTickCounted
  <2>. QED BY <1>4, <2>1 DEF ReplayTickDone, Typed, CallPhases
<1>5. CASE ResumeAllDone
  <2>1. \A yields : AfterResumeAll(pc[pxCurrentTCB], yields) \in CallPoints
    BY AfterResumeAllType DEF CallPoints
  <2>2. pc' \in [TCB -> CallPoints]
    BY <1>5, <2>1, GotoType DEF ResumeAllDone, Typed
  <2>. QED BY <1>5, <2>2 DEF ResumeAllDone, Typed, CallPhases
<1>6. CASE WakeHead
  <2> DEFINE t == OwnerOfHead(store, pxDelayedTaskList)
             L == RemoveEventIfLinked(RemoveGeneric(store, t), t)
  <2>1. t \in TCB
    BY <1>6, ListNames, ListsDisjoint, OwnerOfHeadIsTask
       DEF WakeHead, HeadIsDue, Typed
  <2>2. AddTaskToReadyQueue(L, t, uxPriority[t]) /\ EndDelay(t)
    BY <1>6 DEF WakeHead
  <2>3. L \in Stores
    BY <2>1, UnlinkTaskType
  <2>. HIDE DEF t, L
  <2>4. store' \in Stores /\ uxTopReadyPriority' \in Priority
    BY <2>1, <2>2, <2>3, AddTaskType DEF Typed
  <2>. QED BY <1>6, <2>2, <2>4, EndDelayType DEF WakeHead, Typed
<1>7. CASE TickInterruptDone
  BY <1>7 DEF TickInterruptDone, Typed, CallPhases
<1>. QED BY <1>1, <1>2, <1>3, <1>4, <1>5, <1>6, <1>7 DEF MaskedStep

LEMMA InterruptTypes ==
  ASSUME Typed, TickISR \/ OtherISR \/ Switch
  PROVE  Typed'
<1>. USE DEF tickVars, listVars, delayVars, taskVars, suspendVars, loopVars,
             runVars
<1>0. \A n \in Tick : (n + 1) % TickCount \in Tick
  BY TickArithmetic DEF Tick
<1>1. CASE TickInterrupt
  BY <1>0, <1>1, IncrementTickType DEF TickInterrupt, Typed, CallPhases
<1>2. CASE TickInterruptMissed
  BY <1>0, <1>2, CountAssumption DEF TickInterruptMissed, Typed
<1>3. ASSUME NEW t \in Task, ResumeFromISR(t)
      PROVE  Typed'
  <2>1. t \in TCB /\ xPendingReadyList \in EventLists
    BY ListNames DEF TCB
  <2>2. /\ store' \in Stores /\ uxTopReadyPriority' \in Priority
        /\ yieldPending' \in BOOLEAN
    BY <1>3, <2>1, ResumeGenericType, InsertEndType DEF ResumeFromISR, Typed
  <2>. QED BY <1>3, <2>2 DEF ResumeFromISR, Typed
<1>4. ASSUME NEW e \in Event, InterruptSignals(e)
      PROVE  Typed'
  BY <1>4, RemoveFromEventListType DEF InterruptSignals, Typed
<1>5. ASSUME NEW e \in Event, InterruptSignalsLocked(e)
      PROVE  Typed'
  BY <1>5 DEF InterruptSignalsLocked, Typed
<1>6. CASE SwitchContext
  <2>1. PICK p \in 0 .. uxTopReadyPriority :
          /\ ReadyAt(p)
          /\ uxTopReadyPriority' = p
          /\ pxCurrentTCB' = OwnerOfHead(store, pxReadyTasksLists(p))
          /\ store' = NextEntry(store, pxReadyTasksLists(p))
    BY <1>6 DEF SwitchContext
  <2>2. p \in Priority
    BY PrioritiesAssumption DEF Typed, Priority
  <2>3. pxReadyTasksLists(p) \in Lists
    BY <2>2, ListNames, ListsDisjoint
  <2>4. store' \in Stores /\ pxCurrentTCB' \in TCB
    BY <2>1, <2>3, NextEntryType, OwnerOfHeadIsTask DEF ReadyAt, Typed
  <2>. QED BY <1>6, <2>1, <2>2, <2>4 DEF SwitchContext, Typed
<1>7. CASE SwitchMissed
  BY <1>7 DEF SwitchMissed, Typed
<1>. QED BY <1>1, <1>2, <1>3, <1>4, <1>5, <1>6, <1>7
         DEF TickISR, OtherISR, Switch

LEMMA InitTypes == Init => Typed
<1>. SUFFICES ASSUME Init PROVE Typed
  OBVIOUS
<1>1. /\ 0 \in Tick /\ 0 \in Priority
      /\ 0 \in 0 .. OverflowCount - 1
      /\ 0 \in 0 .. MaxMissedTicks
      /\ "app" \in CallPoints /\ "run" \in CallPhases
  BY TickArithmetic, CountAssumption, PrioritiesAssumption
     DEF Priority, CallPoints, CallPhases
<1>2. store \in Stores
  BY EmptyStoreType DEF Init
<1>3. /\ pxDelayedTaskList \in DelayLists
      /\ pxOverflowDelayedTaskList \in DelayLists
  BY ListNames DEF Init
<1>4. /\ xItemValue \in [TCB -> Tick]
      /\ uxPriority \in [TCB -> Priority]
      /\ ticksLeft \in [TCB -> Tick]
      /\ pc \in [TCB -> CallPoints]
      /\ queueLock \in [Event -> {"unlocked", "locked", "posted"}]
  BY <1>1 DEF Init
<1>5. /\ allocated \subseteq TCB
      /\ pxCurrentTCB \in TCB \cup {NULL}
      /\ xSchedulerRunning \in BOOLEAN
      /\ xMissedYield \in BOOLEAN
      /\ yieldRequired \in BOOLEAN
      /\ yieldPending \in BOOLEAN
  BY DEF Init
<1>6. /\ xTickCount \in Tick
      /\ xNumOfOverflows \in 0 .. OverflowCount - 1
      /\ uxTopReadyPriority \in Priority
      /\ uxTopUsedPriority \in Priority
      /\ uxSchedulerSuspended \in Nat
      /\ uxMissedTicks \in 0 .. MaxMissedTicks
      /\ uxCurrentNumberOfTasks \in Int
      /\ uxTasksDeleted \in Int
      /\ phase \in CallPhases
      /\ ticksArrived \in Tick
  BY <1>1 DEF Init
<1>. QED BY <1>2, <1>3, <1>4, <1>5, <1>6 DEF Typed

LEMMA StutterTypes == Typed /\ UNCHANGED vars => Typed'
  BY DEF Typed, vars, tickVars, listVars, delayVars, taskVars, suspendVars,
         loopVars, runVars

LEMMA TypeStep == Typed /\ LockInv /\ [Next]_vars => Typed'
  BY BootTypes, CallStepTypes, CallTypes, IdleTypes, MaskedTypes,
     InterruptTypes, StutterTypes DEF Next


-----------------------------------------------------------------------------
(* vTaskSuspendAll excludes: the parts of LockInv, step by step. *)

(* A created task is at the start of its own code; the current task stays, or
   the scheduler has not started. *)
LEMMA BootLock ==
  ASSUME Typed, LockInv, Boot
  PROVE  LockInv'
<1>. USE DEF tickVars, listVars, delayVars, taskVars, suspendVars, loopVars,
             runVars, LockInv, WindowsAlone, QuietBeforeStart,
             MaskedUnsuspended, TickOutsideWindows, ReplayedTickCounted,
             LockHolder, Windows
<1>1. ASSUME NEW t \in Task, NEW p \in RequestedPriority,
             CreateBeforeStart(t, p)
      PROVE  LockInv'
  BY <1>1 DEF CreateBeforeStart, Create, Typed
<1>2. ASSUME StartScheduler
      PROVE  LockInv'
  <2>1. pxCurrentTCB' \in TCB
    BY <1>2 DEF StartScheduler, Create, Typed, TCB
  <2>. QED BY <1>2, <2>1 DEF StartScheduler, Create, Typed
<1>. QED BY <1>1, <1>2 DEF Boot

LEMMA CallStepLock ==
  ASSUME Typed, LockInv, NEW t \in TCB, CallStep(t)
  PROVE  LockInv'
<1>. USE DEF tickVars, listVars, delayVars, taskVars, suspendVars, loopVars,
             runVars, LockInv, WindowsAlone, QuietBeforeStart,
             MaskedUnsuspended, TickOutsideWindows, ReplayedTickCounted,
             LockHolder, Windows
<1>1. CASE YieldWithinAPI(t)
  BY <1>1 DEF YieldWithinAPI, RequestSwitch, RunsAt, Runs, InterruptsEnabled,
              Goto, Typed
<1>2. CASE DelayUnlink(t)
  BY <1>2 DEF DelayUnlink, UnlinkToWakeAt, RunsAt, Runs, InterruptsEnabled,
              Goto, Typed
<1>3. CASE UntilDecide(t)
  <2>1. Goto(t, "insert") \/ Goto(t, "resume")
    BY <1>3 DEF UntilDecide, UnlinkToWakeAt
  <2>. QED BY <1>3, <2>1 DEF UntilDecide, RunsAt, Runs, InterruptsEnabled,
              Goto, Typed
<1>4. CASE DelayInsert(t)
  BY <1>4 DEF DelayInsert, RunsAt, Runs, InterruptsEnabled, Goto, Typed
<1>5. CASE PlaceEventItem(t)
  BY <1>5 DEF PlaceEventItem, RunsAt, Runs, InterruptsEnabled, Goto, Typed
<1>6. CASE PlaceUnlink(t)
  BY <1>6 DEF PlaceUnlink, RunsAt, Runs, InterruptsEnabled, Goto, Typed
<1>7. CASE PlaceInsert(t)
  BY <1>7 DEF PlaceInsert, RunsAt, Runs, InterruptsEnabled, Goto, Typed
<1>8. CASE QueueUnlock(t)
  BY <1>8 DEF QueueUnlock, RunsAt, Runs, InterruptsEnabled, Goto, Typed
<1>9. CASE ResumeAll(t)
  <2>1. /\ xSchedulerRunning /\ phase = "run" /\ t = pxCurrentTCB
        /\ uxSchedulerSuspended > 0
        /\ uxSchedulerSuspended' = uxSchedulerSuspended - 1
        /\ UNCHANGED <<pxCurrentTCB, xSchedulerRunning, uxMissedTicks>>
    BY <1>9 DEF ResumeAll, Runs, RunsApp, RunsAt, InterruptsEnabled
  <2>2. CASE phase' = "drain" /\ pc' = pc
    BY <2>1, <2>2, <1>9 DEF ResumeAll, Typed
  <2>3. CASE phase' = phase /\ Goto(t, AfterResumeAll(pc[t], FALSE))
    <3>1. pc'[t] \notin Windows
      BY <2>3, AfterResumeAllType DEF Goto, Typed
    <3>2. \A u \in TCB : u # t => pc'[u] = pc[u]
      BY <2>3 DEF Goto, Typed
    <3>. QED BY <2>1, <2>3, <3>1, <3>2, <1>9
             DEF ResumeAll, RunsApp, RunsAt, Typed
  <2>. QED BY <1>9, <2>2, <2>3 DEF ResumeAll
<1>. QED BY <1>1, <1>2, <1>3, <1>4, <1>5, <1>6, <1>7, <1>8, <1>9 DEF CallStep

LEMMA CallLock ==
  ASSUME Typed, LockInv, NEW t \in Task, Call(t)
  PROVE  LockInv'
<1>. USE DEF tickVars, listVars, delayVars, taskVars, suspendVars, loopVars,
             runVars, LockInv, WindowsAlone, QuietBeforeStart,
             MaskedUnsuspended, TickOutsideWindows, ReplayedTickCounted,
             LockHolder, Windows
<1>0. t \in TCB /\ t # NULL
  BY NullAssumption DEF TCB
<1>1. ASSUME NEW u \in Task, NEW p \in RequestedPriority, CreateTask(t, u, p)
      PROVE  LockInv'
  BY <1>0, <1>1 DEF CreateTask, Create, RunsApp, RunsAt, Runs,
                    InterruptsEnabled, Typed
<1>2. CASE AppSuspendAll(t)
  BY <1>0, <1>2 DEF AppSuspendAll, SuspendAll, RunsApp, RunsAt, Runs,
                    InterruptsEnabled, Goto, Typed
<1>3. CASE TaskYield(t)
  BY <1>0, <1>3 DEF TaskYield, RequestSwitch, RunsApp, RunsAt, Runs,
                    InterruptsEnabled, Goto, Typed
<1>4. CASE DelayZero(t)
  BY <1>0, <1>4 DEF DelayZero, MayBlock, RunsApp, RunsAt, Runs,
                    InterruptsEnabled, Goto, Typed
<1>5. ASSUME NEW point \in CallPoints, MayBlock(t), SuspendAll(t, point)
      PROVE  LockInv'
  BY <1>0, <1>5 DEF MayBlock, SuspendAll, RunsApp, RunsAt, Runs,
                    InterruptsEnabled, Goto, Typed
<1>6. ASSUME NEW e \in Event, TaskSignals(t, e)
      PROVE  LockInv'
  BY <1>0, <1>6 DEF TaskSignals, MayBlock, RunsApp, RunsAt, Runs,
                    InterruptsEnabled, Typed
<1>7. ASSUME NEW u \in Task, SuspendTask(t, u)
      PROVE  LockInv'
  BY <1>0, <1>7 DEF SuspendTask, RunsApp, RunsAt, Runs,
                    InterruptsEnabled, Goto, Typed
<1>8. ASSUME NEW u \in Task, ResumeTask(t, u)
      PROVE  LockInv'
  BY <1>0, <1>8 DEF ResumeTask, RunsApp, RunsAt, Runs, InterruptsEnabled, Typed
<1>9. ASSUME NEW u \in Task, DeleteTask(t, u)
      PROVE  LockInv'
  BY <1>0, <1>9 DEF DeleteTask, RunsApp, RunsAt, Runs,
                    InterruptsEnabled, Goto, Typed
<1>10. ASSUME NEW u \in Task, NEW p \in RequestedPriority, PrioritySet(t, u, p)
       PROVE  LockInv'
  BY <1>0, <1>10 DEF PrioritySet, RunsApp, RunsAt, Runs,
                     InterruptsEnabled, Typed
<1>11. {"delay", "until", "place"} \subseteq CallPoints
  BY DEF CallPoints
<1>12. CASE DelaySuspend(t) \/ DelayUntilSuspend(t)
  BY <1>5, <1>11, <1>12 DEF DelaySuspend, DelayUntilSuspend
<1>13. ASSUME NEW e \in Event, QueueSuspend(t, e)
       PROVE  LockInv'
  BY <1>5, <1>11, <1>13 DEF QueueSuspend
<1>. QED BY <1>1, <1>2, <1>3, <1>4, <1>6, <1>7, <1>8, <1>9, <1>10, <1>12,
            <1>13 DEF Call

LEMMA ReapLock ==
  ASSUME Typed, LockInv, NEW t, Reap(t)
  PROVE  LockInv'
<1>. Idle \in TCB /\ Idle \notin Task
  BY IdleAssumption DEF TCB
<1>. QED BY DEF Reap, RunsAt, Runs, InterruptsEnabled, Goto, Typed, tickVars,
           delayVars, suspendVars, loopVars, runVars, LockInv, WindowsAlone,
           QuietBeforeStart, MaskedUnsuspended, TickOutsideWindows,
           ReplayedTickCounted, LockHolder, Windows

(* The idle task suspends the scheduler when nobody has: the application's
   suspensions belong to other tasks, and keep them running. *)
LEMMA IdleLock ==
  ASSUME Typed, LockInv, IdleStep
  PROVE  LockInv'
<1>. USE DEF tickVars, listVars, delayVars, taskVars, suspendVars, loopVars,
             runVars, LockInv, WindowsAlone, QuietBeforeStart,
             MaskedUnsuspended, TickOutsideWindows, ReplayedTickCounted,
             LockHolder, Windows
<1>0. Idle \in TCB /\ Idle \notin Task
  BY IdleAssumption DEF TCB
<1>1. CASE IdleSuspend
  <2>1. uxSchedulerSuspended = 0
    BY <1>0, <1>1 DEF IdleSuspend, RunsAt, Runs, InterruptsEnabled, Typed
  <2>. QED BY <1>0, <1>1, <2>1 DEF IdleSuspend, SuspendAll, RunsAt, Runs,
                     InterruptsEnabled, Goto, Typed
<1>2. CASE IdleReadList
  BY <1>0, <1>2 DEF IdleReadList, RunsAt, Runs, InterruptsEnabled, Goto, Typed
<1>3. CASE IdleReap
  BY <1>3, ReapLock DEF IdleReap
<1>4. CASE IdleLoop
  BY <1>0, <1>4 DEF IdleLoop, RunsAt, Runs, InterruptsEnabled, Goto, Typed
<1>. QED BY <1>1, <1>2, <1>3, <1>4 DEF IdleStep

LEMMA MaskedLock ==
  ASSUME Typed, LockInv, MaskedStep
  PROVE  LockInv'
<1>. USE DEF tickVars, listVars, delayVars, taskVars, suspendVars, loopVars,
             runVars, LockInv, WindowsAlone, QuietBeforeStart,
             MaskedUnsuspended, TickOutsideWindows, ReplayedTickCounted,
             LockHolder, Windows
<1>1. CASE DrainPending
  BY <1>1 DEF DrainPending, Typed
<1>2. CASE DrainDone
  BY <1>2 DEF DrainDone, Typed
<1>3. CASE ReplayTick
  BY <1>3 DEF ReplayTick, TicksReplayed, Typed
<1>4. CASE ReplayTickDone
  BY <1>4 DEF ReplayTickDone, Typed
<1>5. CASE ResumeAllDone
  <2>1. /\ phase = "replay" /\ phase' = "run" /\ uxSchedulerSuspended = 0
        /\ xSchedulerRunning /\ pxCurrentTCB \in TCB
        /\ UNCHANGED <<uxSchedulerSuspended, uxMissedTicks, pxCurrentTCB,
                       xSchedulerRunning>>
    BY <1>5 DEF ResumeAllDone, Typed
  <2>2. pc'[pxCurrentTCB] \notin Windows
    BY <1>5, <2>1, AfterResumeAllType DEF ResumeAllDone, Goto, Typed
  <2>3. \A u \in TCB : u # pxCurrentTCB => pc'[u] = pc[u]
    BY <1>5 DEF ResumeAllDone, Goto, Typed
  <2>. QED BY <2>1, <2>2, <2>3
<1>6. CASE WakeHead
  BY <1>6 DEF WakeHead, Typed
<1>7. CASE TickInterruptDone
  BY <1>7 DEF TickInterruptDone, Typed
<1>. QED BY <1>1, <1>2, <1>3, <1>4, <1>5, <1>6, <1>7 DEF MaskedStep

LEMMA InterruptLock ==
  ASSUME Typed, LockInv, TickISR \/ OtherISR \/ Switch
  PROVE  LockInv'
<1>. USE DEF tickVars, listVars, delayVars, taskVars, suspendVars, loopVars,
             runVars, LockInv, WindowsAlone, QuietBeforeStart,
             MaskedUnsuspended, TickOutsideWindows, ReplayedTickCounted,
             LockHolder, Windows
<1>1. CASE TickInterrupt
  BY <1>1 DEF TickInterrupt, InterruptsEnabled, Typed
<1>2. CASE TickInterruptMissed
  BY <1>2 DEF TickInterruptMissed, InterruptsEnabled, Typed
<1>3. ASSUME NEW t \in Task, ResumeFromISR(t)
      PROVE  LockInv'
  BY <1>3 DEF ResumeFromISR, InterruptsEnabled, Typed
<1>4. ASSUME NEW e \in Event, InterruptSignals(e) \/ InterruptSignalsLocked(e)
      PROVE  LockInv'
  BY <1>4 DEF InterruptSignals, InterruptSignalsLocked, InterruptsEnabled,
              Typed
<1>5. CASE SwitchContext
  <2>1. pxCurrentTCB' \in TCB
    <3>1. PICK p \in 0 .. uxTopReadyPriority :
            /\ ReadyAt(p)
            /\ pxCurrentTCB' = OwnerOfHead(store, pxReadyTasksLists(p))
      BY <1>5 DEF SwitchContext
    <3>2. pxReadyTasksLists(p) \in Lists
      BY ListNames, ListsDisjoint, PrioritiesAssumption DEF Typed, Priority
    <3>. QED BY <3>1, <3>2, OwnerOfHeadIsTask DEF ReadyAt, Typed
  <2>. QED BY <1>5, <2>1 DEF SwitchContext, SwitchAllowed, InterruptsEnabled,
                             Typed
<1>6. CASE SwitchMissed
  BY <1>6 DEF SwitchMissed, InterruptsEnabled, Typed
<1>. QED BY <1>1, <1>2, <1>3, <1>4, <1>5, <1>6 DEF TickISR, OtherISR, Switch

LEMMA InitLock == Init => LockInv
<1>. USE DEF tickVars, listVars, delayVars, taskVars, suspendVars, loopVars,
             runVars, LockInv, WindowsAlone, QuietBeforeStart,
             MaskedUnsuspended, TickOutsideWindows, ReplayedTickCounted,
             LockHolder, Windows
<1>. QED BY DEF Init

LEMMA StutterLock == LockInv /\ UNCHANGED vars => LockInv'
<1>. USE DEF tickVars, listVars, delayVars, taskVars, suspendVars, loopVars,
             runVars, LockInv, WindowsAlone, QuietBeforeStart,
             MaskedUnsuspended, TickOutsideWindows, ReplayedTickCounted,
             LockHolder, Windows
<1>. QED BY DEF vars

LEMMA LockStep == Typed /\ LockInv /\ [Next]_vars => LockInv'
  BY BootLock, CallStepLock, CallLock, IdleLock, MaskedLock, InterruptLock,
     StutterLock DEF Next

-----------------------------------------------------------------------------
LEMMA Invariance == Spec => [](Typed /\ LockInv)
<1>1. Init => Typed /\ LockInv
  BY InitTypes, InitLock
<1>2. Typed /\ LockInv /\ [Next]_vars => (Typed /\ LockInv)'
  BY TypeStep, LockStep
<1>. QED BY <1>1, <1>2, PTL DEF Spec

(* No step of Kernel leaves its control points. *)
LEMMA PointsStep ==
  ASSUME Typed, KernelPoints, [Next]_vars
  PROVE  KernelPoints'
<1>. USE DEF KernelPoints, Points, WindowPoints, Phases, loopVars
<1>1. ASSUME UNCHANGED <<pc, phase>>
      PROVE  KernelPoints'
  BY <1>1
<1>2. ASSUME NEW t, NEW point \in Points, Goto(t, point), UNCHANGED phase
      PROVE  KernelPoints'
  BY <1>2 DEF Goto
<1>. HIDE DEF KernelPoints
<1>3. CASE Boot
  BY <1>1, <1>3 DEF Boot, CreateBeforeStart, StartScheduler, Create
<1>4. ASSUME NEW t \in TCB, CallStep(t)
      PROVE  KernelPoints'
  <2>1. CASE ResumeAll(t)
    <3>1. AfterResumeAll(pc[t], FALSE) \in Points
      BY AfterResumeAllType
    <3>2. CASE phase' = phase
      BY <1>1, <1>2, <2>1, <3>1, <3>2 DEF ResumeAll
    <3>3. CASE phase' = "drain" /\ pc' = pc
      BY <3>3 DEF KernelPoints
    <3>. QED BY <2>1, <3>2, <3>3 DEF ResumeAll
  <2>2. CASE UntilDecide(t)
    <3>1. Goto(t, "insert") \/ Goto(t, "resume")
      BY <2>2 DEF UntilDecide, UnlinkToWakeAt
    <3>. QED BY <1>2, <2>2, <3>1 DEF UntilDecide
  <2>3. CASE DelayUnlink(t)
    BY <1>2, <2>3 DEF DelayUnlink, UnlinkToWakeAt
  <2>. QED BY <1>2, <1>4, <2>1, <2>2, <2>3
           DEF CallStep, YieldWithinAPI, RequestSwitch, DelayInsert,
               PlaceEventItem, PlaceUnlink, PlaceInsert, QueueUnlock
<1>5. ASSUME NEW t \in Task, Call(t)
      PROVE  KernelPoints'
  <2>1. ASSUME NEW u \in Task, NEW p \in RequestedPriority,
               CreateTask(t, u, p)
        PROVE  KernelPoints'
    BY <2>1 DEF CreateTask, Create, KernelPoints
  <2>. QED BY <1>1, <1>2, <1>5, <2>1
           DEF Call, AppSuspendAll, SuspendAll, TaskYield, RequestSwitch,
               DelayZero, DelaySuspend, DelayUntilSuspend, QueueSuspend,
               TaskSignals, SuspendTask, ResumeTask, DeleteTask, PrioritySet
<1>6. CASE IdleStep
  BY <1>2, <1>6 DEF IdleStep, IdleSuspend, SuspendAll, IdleReadList, IdleReap,
                    Reap,
                    IdleLoop
<1>7. CASE MaskedStep
  <2>1. CASE ResumeAllDone
    <3>1. PICK yields : Goto(pxCurrentTCB,
                             AfterResumeAll(pc[pxCurrentTCB], yields))
      BY <2>1 DEF ResumeAllDone
    <3>2. AfterResumeAll(pc[pxCurrentTCB], yields) \in Points
      BY AfterResumeAllType
    <3>. QED BY <2>1, <3>1, <3>2 DEF ResumeAllDone, Goto, KernelPoints
  <2>. QED BY <1>7, <2>1 DEF MaskedStep, DrainPending, DrainDone, ReplayTick,
                 ReplayTickDone, WakeHead, TickInterruptDone, KernelPoints
<1>8. CASE TickISR \/ OtherISR \/ Switch
  BY <1>8 DEF TickISR, TickInterrupt, TickInterruptMissed, OtherISR,
              ResumeFromISR, InterruptSignals, InterruptSignalsLocked, Switch,
              SwitchContext, SwitchMissed, KernelPoints
<1>9. CASE UNCHANGED vars
  BY <1>1, <1>9 DEF vars
<1>. QED BY <1>3, <1>4, <1>5, <1>6, <1>7, <1>8, <1>9 DEF Next

(* Every variable keeps its type: in particular no priority is ever used as an
   index outside pxReadyTasksLists, uxSchedulerSuspended and uxMissedTicks are
   never decremented below zero, and vTaskDelayUntil never computes a delay
   that is not a tick count. *)
THEOREM TypeCorrect == Spec => []TypeOK
<1>1. Init => KernelPoints
  BY DEF Init, KernelPoints, Points, Phases
<1>2. Typed /\ KernelPoints /\ [Next]_vars => KernelPoints'
  BY PointsStep
<1>. QED BY <1>1, <1>2, Invariance, TypeParts, PTL DEF Spec

(* No interrupt, yield or tick makes another task run between the
   vTaskSuspendAll and the xTaskResumeAll of a kernel function, and the
   suspension is counted once. *)
THEOREM SuspensionExcludes == Spec => []SchedulerLock
<1>1. LockInv => SchedulerLock
  BY DEF LockInv, WindowsAlone, SchedulerLock, Windows, WindowPoints
<1>. QED BY <1>1, Invariance, PTL

-----------------------------------------------------------------------------
(* Interrupts and the suspended scheduler *)

(* Moving event items leaves the generic ones where they are. *)
LEMMA EventOnlyMoves ==
  ASSUME NEW L \in Stores, NEW t, NEW l
  PROVE  /\ InsertEndEvent(L, l, t).generic = L.generic
         /\ InsertEndEvent(RemoveEvent(L, t), l, t).generic = L.generic
BY DEF InsertEndEvent, RemoveEvent, Stores

(* What an interrupt may do to a suspended scheduler. *)
KeepsOff == store'.generic = store.generic /\ pxCurrentTCB' = pxCurrentTCB

LEMMA InterruptKeepsOff ==
  ASSUME Typed, uxSchedulerSuspended > 0, TickISR \/ OtherISR \/ Switch
  PROVE  KeepsOff
<1>1. uxSchedulerSuspended # 0
  OBVIOUS
<1>2. CASE TickISR
  BY <1>1, <1>2 DEF TickISR, TickInterrupt, TickInterruptMissed, listVars,
                    runVars, KeepsOff
<1>3. CASE \E t \in Task : ResumeFromISR(t)
  <2>1. PICK t \in Task : ResumeFromISR(t)
    BY <1>3
  <2>2. store' = InsertEndEvent(store, xPendingReadyList, t)
    BY <1>1, <2>1 DEF ResumeFromISR, ListsAccessible
  <2>. QED BY <2>1, <2>2, EventOnlyMoves DEF ResumeFromISR, runVars, KeepsOff,
                                             Typed
<1>4. CASE \E e \in Event : InterruptSignals(e)
  <2>1. PICK e \in Event : InterruptSignals(e)
    BY <1>4
  <2> DEFINE t == OwnerOfHead(store, EventList(e))
  <2>2. store' = InsertEndEvent(RemoveEvent(store, t), xPendingReadyList, t)
    BY <1>1, <2>1 DEF InterruptSignals, RemoveFromEventList, ListsAccessible
  <2>. HIDE DEF t
  <2>. QED BY <2>1, <2>2, EventOnlyMoves DEF InterruptSignals, runVars,
                                             KeepsOff, Typed
<1>5. CASE \E e \in Event : InterruptSignalsLocked(e)
  BY <1>5 DEF InterruptSignalsLocked, listVars, runVars, KeepsOff
<1>6. CASE Switch
  BY <1>1, <1>6 DEF Switch, SwitchContext, SwitchAllowed, SwitchMissed,
                    listVars, runVars, KeepsOff
<1>. QED BY <1>2, <1>3, <1>4, <1>5, <1>6 DEF OtherISR

(* While the scheduler is suspended no interrupt and no switch moves a task
   between the ready, delayed, suspended and termination lists, or takes the
   processor from the task that suspended it (vTaskIncrementTick,
   xTaskResumeFromISR, xTaskRemoveFromEventList, vTaskSwitchContext). *)
THEOREM InterruptsExcluded == Spec => InterruptsKeepOff
<1>1. Typed /\ [Next]_vars
        => [uxSchedulerSuspended > 0 /\ (TickISR \/ OtherISR \/ Switch)
              => store'.generic = store.generic
                 /\ pxCurrentTCB' = pxCurrentTCB]_vars
  BY InterruptKeepsOff DEF KeepsOff
<1>. QED BY <1>1, Invariance, PTL DEF Spec, InterruptsKeepOff

-----------------------------------------------------------------------------
(* Where the tasks are. *)

(* The current task's TCB is never freed, and there is a current task as soon
   as one is created. *)
CurrentAllocated ==
  IF pxCurrentTCB = NULL THEN allocated = {} ELSE pxCurrentTCB \in allocated

(* xTaskGenericCreate initialises the lists before the first task, and not when
   there are tasks. *)
FirstFound ==
  /\ pxCurrentTCB \in allocated \cup {NULL}
  /\ pxCurrentTCB = NULL /\ uxCurrentNumberOfTasks = 0 => allocated = {}

(* Before the start every task is ready. *)
ReadyBeforeStart ==
  ~xSchedulerRunning => \A t \in allocated : store.generic[t] \in ReadyLists

(* The task that runs xTaskResumeAll's loops called it. *)
LoopCaller ==
  phase \in {"drain", "replay", "replayWake"} =>
    pc[pxCurrentTCB] \in {"app", "resume", "reapEmpty", "reapFull"}

(* A task is in its ready list when it makes a step, but for the time between
   taking itself off and the switch that follows. *)
MustBeReady(t) ==
  \/ pc[t] \in {"delay", "until", "inherit", "place", "placeGeneric",
                "reapRead", "reapFull", "reapEmpty", "reap", "idleYield"}
  \/ pc[t] \in {"app", "taken"} /\ (~yieldPending \/ uxSchedulerSuspended > 0)
  \/ pc[t] = "yield" /\ uxSchedulerSuspended > 0

RunningReady ==
  xSchedulerRunning /\ MustBeReady(pxCurrentTCB) =>
    store.generic[pxCurrentTCB] \in ReadyLists

(* The three properties, made inductive. *)
StoreInv ==
  /\ StoreConsistent
  /\ Placement
  /\ EventPlacement
  /\ CurrentAllocated
  /\ ReadyBeforeStart
  /\ LoopCaller
  /\ RunningReady

-----------------------------------------------------------------------------
(* The list operations in the combinations the kernel uses. *)

LEMMA UnlinkTaskOK ==
  ASSUME NEW L \in Stores, StoreOK(L), NEW t \in TCB, L.generic[t] # NULL
  PROVE  /\ RemoveEventIfLinked(RemoveGeneric(L, t), t) \in Stores
         /\ StoreOK(RemoveEventIfLinked(RemoveGeneric(L, t), t))
         /\ RemoveEventIfLinked(RemoveGeneric(L, t), t).generic
              = [L.generic EXCEPT ![t] = NULL]
         /\ RemoveEventIfLinked(RemoveGeneric(L, t), t).event
              = [L.event EXCEPT ![t] = NULL]
<1> DEFINE M == RemoveGeneric(L, t)
<1>1. /\ M \in Stores
      /\ StoreOK(M)
      /\ M.generic = [L.generic EXCEPT ![t] = NULL]
      /\ M.event = L.event
  BY RemoveGenericType, RemoveGenericOK
<1>. HIDE DEF M
<1>2. /\ RemoveEventIfLinked(M, t) \in Stores
      /\ StoreOK(RemoveEventIfLinked(M, t))
      /\ RemoveEventIfLinked(M, t).generic = M.generic
      /\ RemoveEventIfLinked(M, t).event = [M.event EXCEPT ![t] = NULL]
  BY <1>1, RemoveEventType, RemoveEventIfLinkedOK
<1>. QED BY <1>1, <1>2 DEF M

(* A task that is in no scheduler list goes to the end of one. *)
LEMMA LinkTaskOK ==
  ASSUME NEW M \in Stores, StoreOK(M), NEW t \in TCB, NEW l \in GenericLists,
         NEW g, NEW ev,
         M.generic = [g EXCEPT ![t] = NULL], M.event = ev,
         DOMAIN g = TCB
  PROVE  /\ StoreOK(InsertEndGeneric(M, l, t))
         /\ InsertEndGeneric(M, l, t).generic = [g EXCEPT ![t] = l]
         /\ InsertEndGeneric(M, l, t).event = ev
<1>1. M.generic[t] = NULL
  OBVIOUS
<1>2. /\ StoreOK(InsertEndGeneric(M, l, t))
      /\ InsertEndGeneric(M, l, t).generic = [M.generic EXCEPT ![t] = l]
      /\ InsertEndGeneric(M, l, t).event = M.event
  BY <1>1, InsertEndGenericOK
<1>. QED BY <1>2

(* vListRemove and vListInsertEnd on the generic item. *)
LEMMA MoveGenericOK ==
  ASSUME NEW L \in Stores, StoreOK(L), NEW t \in TCB, L.generic[t] # NULL,
         NEW l \in GenericLists
  PROVE  /\ StoreOK(InsertEndGeneric(RemoveGeneric(L, t), l, t))
         /\ InsertEndGeneric(RemoveGeneric(L, t), l, t).generic
              = [L.generic EXCEPT ![t] = l]
         /\ InsertEndGeneric(RemoveGeneric(L, t), l, t).event = L.event
<1> DEFINE M == RemoveGeneric(L, t)
<1>1. /\ M \in Stores
      /\ StoreOK(M)
      /\ M.generic = [L.generic EXCEPT ![t] = NULL]
      /\ M.event = L.event
  BY RemoveGenericType, RemoveGenericOK
<1>2. DOMAIN L.generic = TCB
  BY DEF Stores
<1>. HIDE DEF M
<1>3. /\ StoreOK(InsertEndGeneric(M, l, t))
      /\ InsertEndGeneric(M, l, t).generic = [L.generic EXCEPT ![t] = l]
      /\ InsertEndGeneric(M, l, t).event = L.event
  BY <1>1, <1>2, LinkTaskOK
<1>. QED BY <1>3 DEF M

(* A task leaves whatever lists it is in for one scheduler list. *)
LEMMA MoveTaskOK ==
  ASSUME NEW L \in Stores, StoreOK(L), NEW t \in TCB, L.generic[t] # NULL,
         NEW l \in GenericLists
  PROVE  LET M == RemoveEventIfLinked(RemoveGeneric(L, t), t)
         IN  /\ StoreOK(InsertEndGeneric(M, l, t))
             /\ InsertEndGeneric(M, l, t).generic = [L.generic EXCEPT ![t] = l]
             /\ InsertEndGeneric(M, l, t).event = [L.event EXCEPT ![t] = NULL]
<1> DEFINE M == RemoveEventIfLinked(RemoveGeneric(L, t), t)
<1>1. /\ M \in Stores
      /\ StoreOK(M)
      /\ M.generic = [L.generic EXCEPT ![t] = NULL]
      /\ M.event = [L.event EXCEPT ![t] = NULL]
  BY UnlinkTaskOK
<1>2. DOMAIN L.generic = TCB
  BY DEF Stores
<1>. HIDE DEF M
<1>3. /\ StoreOK(InsertEndGeneric(M, l, t))
      /\ InsertEndGeneric(M, l, t).generic = [L.generic EXCEPT ![t] = l]
      /\ InsertEndGeneric(M, l, t).event = [L.event EXCEPT ![t] = NULL]
  BY <1>1, <1>2, LinkTaskOK
<1>. QED BY <1>3 DEF M

(* A task leaves an event list for the list of those readied while the
   scheduler is suspended. *)
LEMMA MoveEventOK ==
  ASSUME NEW L \in Stores, StoreOK(L), NEW t \in TCB, L.event[t] # NULL,
         NEW l \in EventLists
  PROVE  /\ StoreOK(InsertEndEvent(RemoveEvent(L, t), l, t))
         /\ InsertEndEvent(RemoveEvent(L, t), l, t).event
              = [L.event EXCEPT ![t] = l]
         /\ InsertEndEvent(RemoveEvent(L, t), l, t).generic = L.generic
<1> DEFINE M == RemoveEvent(L, t)
<1>1. /\ M \in Stores
      /\ StoreOK(M)
      /\ M.event = [L.event EXCEPT ![t] = NULL]
      /\ M.generic = L.generic
  BY RemoveEventType, RemoveEventOK
<1>2. DOMAIN L.event = TCB
  BY DEF Stores
<1>. HIDE DEF M
<1>3. M.event[t] = NULL
  BY <1>1, <1>2
<1>4. /\ StoreOK(InsertEndEvent(M, l, t))
      /\ InsertEndEvent(M, l, t).event = [M.event EXCEPT ![t] = l]
      /\ InsertEndEvent(M, l, t).generic = M.generic
  BY <1>1, <1>3, InsertEndEventOK
<1>. QED BY <1>1, <1>2, <1>4 DEF M

(* A task leaves both its lists for a ready list. *)
LEMMA ReadyFromEventOK ==
  ASSUME NEW L \in Stores, StoreOK(L), NEW t \in TCB, L.event[t] # NULL,
         L.generic[t] # NULL, NEW l \in GenericLists
  PROVE  LET M == RemoveGeneric(RemoveEvent(L, t), t)
         IN  /\ StoreOK(InsertEndGeneric(M, l, t))
             /\ InsertEndGeneric(M, l, t).generic = [L.generic EXCEPT ![t] = l]
             /\ InsertEndGeneric(M, l, t).event = [L.event EXCEPT ![t] = NULL]
<1> DEFINE M == RemoveEvent(L, t)
<1>1. /\ M \in Stores
      /\ StoreOK(M)
      /\ M.event = [L.event EXCEPT ![t] = NULL]
      /\ M.generic = L.generic
  BY RemoveEventType, RemoveEventOK
<1>. HIDE DEF M
<1>2. /\ StoreOK(InsertEndGeneric(RemoveGeneric(M, t), l, t))
      /\ InsertEndGeneric(RemoveGeneric(M, t), l, t).generic
           = [M.generic EXCEPT ![t] = l]
      /\ InsertEndGeneric(RemoveGeneric(M, t), l, t).event = M.event
  BY <1>1, MoveGenericOK
<1>. QED BY <1>1, <1>2 DEF M

-----------------------------------------------------------------------------
(* What a step has to show, list by list. *)

(* The scheduler lists a task can be in when it is not between two lists. *)
LEMMA InOneList ==
  ASSUME Typed, Placement, NEW t \in allocated, ~BetweenLists(t)
  PROVE  t \in TCB /\ store.generic[t] # NULL
<1>1. t \in TCB /\ pxReadyTasksLists(uxPriority[t]) \in GenericLists
  BY ListNames DEF Typed
<1>. QED BY <1>1, ListNames, ListsDisjoint DEF Placement

(* The two items of a task in any list are those of an allocated task. *)
LEMMA LinkedAllocated ==
  ASSUME Typed, Placement, NEW t \in TCB,
         store.generic[t] # NULL \/ store.event[t] # NULL
  PROVE  t \in allocated
  BY DEF Placement

(* The head of a list is a task that is in it, and is allocated. *)
LEMMA HeadGeneric ==
  ASSUME Typed, StoreConsistent, Placement, NEW l \in GenericLists,
         ~IsEmpty(store, l)
  PROVE  /\ OwnerOfHead(store, l) \in allocated
         /\ store.generic[OwnerOfHead(store, l)] = l
<1>1. l \in Lists /\ l # NULL
  BY ListsDisjoint
<1>2. /\ OwnerOfHead(store, l) \in TCB
      /\ Contains(store.ring[l], OwnerOfHead(store, l))
  BY <1>1, OwnerOfHeadIsTask DEF Typed
<1>3. store.generic[OwnerOfHead(store, l)] = l
  BY <1>2 DEF StoreConsistent, StoreOK
<1>. QED BY <1>1, <1>2, <1>3, LinkedAllocated

LEMMA HeadEvent ==
  ASSUME Typed, StoreInv, NEW l \in EventLists, ~IsEmpty(store, l)
  PROVE  /\ OwnerOfHead(store, l) \in allocated
         /\ store.event[OwnerOfHead(store, l)] = l
<1>1. l \in Lists /\ l # NULL
  BY ListsDisjoint
<1>2. /\ OwnerOfHead(store, l) \in TCB
      /\ Contains(store.ring[l], OwnerOfHead(store, l))
  BY <1>1, OwnerOfHeadIsTask DEF Typed
<1>3. store.event[OwnerOfHead(store, l)] = l
  BY <1>2 DEF StoreInv, StoreConsistent, StoreOK
<1>. QED BY <1>1, <1>2, <1>3, LinkedAllocated DEF StoreInv

(* Steps that leave the lists, the tasks and the priorities alone. *)
LEMMA UnchangedStore ==
  ASSUME StoreInv,
         UNCHANGED <<store, uxPriority, allocated, pxCurrentTCB,
                     xSchedulerRunning>>,
         \A t \in TCB : BetweenLists(t) <=> BetweenLists(t)',
         \A t \in TCB : pc[t] \in {"placeGeneric", "placeInsert"}
                          => pc'[t] \in {"placeGeneric", "placeInsert"},
         LoopCaller',
         xSchedulerRunning /\ MustBeReady(pxCurrentTCB)'
            => MustBeReady(pxCurrentTCB)
  PROVE  StoreInv'
<1>1. StoreConsistent' /\ Placement'
  BY DEF StoreInv, StoreConsistent, Placement
<1>2. EventPlacement'
  BY DEF StoreInv, EventPlacement, Blocked, Delayed
<1>3. CurrentAllocated' /\ ReadyBeforeStart' /\ RunningReady'
  BY DEF StoreInv, CurrentAllocated, ReadyBeforeStart, RunningReady
<1>. QED BY <1>1, <1>2, <1>3 DEF StoreInv

-----------------------------------------------------------------------------
(* Creation *)

LEMMA CreateStore ==
  ASSUME Typed, LockInv, StoreConsistent, Placement,
         FirstFound, NEW t \in TCB, NEW p \in RequestedPriority,
         Create(t, p)
  PROVE  /\ StoreOK(store')
         /\ store'.generic = [store.generic EXCEPT
                                ![t] = pxReadyTasksLists(uxPriority'[t])]
         /\ store'.event = store.event
         /\ store.event[t] = NULL
         /\ uxPriority'[t] \in Priority
         /\ \A u \in TCB : u # t => uxPriority'[u] = uxPriority[u]
         /\ t \notin allocated /\ allocated' = allocated \cup {t}
         /\ pxCurrentTCB' \in allocated' /\ pxCurrentTCB' # NULL
         /\ xSchedulerRunning => pxCurrentTCB' = pxCurrentTCB
         /\ UNCHANGED <<phase, uxSchedulerSuspended>>
<1> DEFINE first == pxCurrentTCB = NULL /\ uxCurrentNumberOfTasks + 1 = 1
           L == IF first THEN EmptyStore ELSE store
           l == pxReadyTasksLists(Capped(p))
<1>1. /\ Capped(p) \in Priority
      /\ uxPriority' = [uxPriority EXCEPT ![t] = Capped(p)]
      /\ t \notin allocated /\ allocated' = allocated \cup {t}
  BY CappedType DEF RequestedPriority, Create
<1>2. uxPriority'[t] = Capped(p)
  BY <1>1 DEF Typed
<1>3. store.generic[t] = NULL /\ store.event[t] = NULL
  BY <1>1 DEF Placement
<1>4. L \in Stores /\ StoreOK(L)
  BY EmptyStoreType, EmptyStoreOK DEF Typed, StoreConsistent
<1>5. L.generic = store.generic /\ L.event = store.event
  <2>1. CASE first
    <3>1. \A u \in TCB : store.generic[u] = NULL /\ store.event[u] = NULL
      BY <2>1 DEF StoreInv, FirstFound, Placement, Typed
    <3>2. /\ store.generic = [u \in TCB |-> NULL]
          /\ store.event = [u \in TCB |-> NULL]
      BY <3>1 DEF Typed, Stores
    <3>. QED BY <2>1, <3>2 DEF EmptyStore
  <2>2. CASE ~first
    BY <2>2
  <2>. QED BY <2>1, <2>2
<1>6. store' = InsertEndGeneric(L, l, t)
  BY DEF Create, AddTaskToReadyQueue
<1>7. l \in GenericLists
  BY <1>1, ListNames
<1>. HIDE DEF L, l
<1>8. /\ StoreOK(store')
      /\ store'.generic = [store.generic EXCEPT ![t] = l]
      /\ store'.event = store.event
  BY <1>3, <1>4, <1>5, <1>6, <1>7, InsertEndGenericOK
<1>9. /\ pxCurrentTCB' \in allocated' /\ pxCurrentTCB' # NULL
      /\ xSchedulerRunning => pxCurrentTCB' = pxCurrentTCB
  <2>1. \/ pxCurrentTCB' = t
        \/ pxCurrentTCB' = pxCurrentTCB /\ pxCurrentTCB # NULL
    BY DEF Create
  <2>2. xSchedulerRunning => pxCurrentTCB # NULL
    BY NullAssumption DEF LockInv, TCB
  <2>3. xSchedulerRunning => pxCurrentTCB' = pxCurrentTCB
    BY <2>2 DEF Create
  <2>. QED BY <1>1, <2>1, <2>3, NullAssumption
           DEF FirstFound, TCB
<1>. QED BY <1>1, <1>2, <1>3, <1>8, <1>9 DEF Create, loopVars, suspendVars, l

LEMMA BootStore ==
  ASSUME Typed, LockInv, StoreInv, Boot
  PROVE  StoreInv'
<1>1. PICK t \in TCB, p \in RequestedPriority :
         /\ Create(t, p)
         /\ ~xSchedulerRunning
         /\ pc' = pc /\ yieldPending' = yieldPending
  <2>1. ASSUME NEW t \in Task, NEW p \in RequestedPriority,
               CreateBeforeStart(t, p)
        PROVE  /\ t \in TCB
               /\ Create(t, p)
               /\ ~xSchedulerRunning
               /\ pc' = pc /\ yieldPending' = yieldPending
    BY <2>1 DEF CreateBeforeStart, TCB
  <2>2. ASSUME StartScheduler
        PROVE  /\ Idle \in TCB /\ 0 \in RequestedPriority
               /\ Create(Idle, 0)
               /\ ~xSchedulerRunning
               /\ pc' = pc /\ yieldPending' = yieldPending
    BY <2>2, PrioritiesAssumption DEF StartScheduler, TCB, RequestedPriority
  <2>. QED BY <2>1, <2>2 DEF Boot
<1>2. /\ phase = "run" /\ uxSchedulerSuspended = 0
      /\ \A u \in TCB : pc[u] = "app"
      /\ \A u \in allocated : store.generic[u] \in ReadyLists
  BY <1>1 DEF LockInv, QuietBeforeStart, StoreInv, ReadyBeforeStart
<1>3. /\ StoreOK(store')
      /\ store'.generic = [store.generic EXCEPT
                             ![t] = pxReadyTasksLists(uxPriority'[t])]
      /\ store'.event = store.event
      /\ store.event[t] = NULL
      /\ uxPriority'[t] \in Priority
      /\ \A u \in TCB : u # t => uxPriority'[u] = uxPriority[u]
      /\ t \notin allocated /\ allocated' = allocated \cup {t}
      /\ pxCurrentTCB' \in allocated' /\ pxCurrentTCB' # NULL
      /\ UNCHANGED <<phase, uxSchedulerSuspended>>
  BY <1>1, CreateStore DEF StoreInv, CurrentAllocated, FirstFound
<1>4. pxReadyTasksLists(uxPriority'[t]) \in ReadyLists
  BY <1>3, ListNames
<1>5. \A u \in TCB : store'.generic[u] =
         IF u = t THEN pxReadyTasksLists(uxPriority'[t]) ELSE store.generic[u]
  BY <1>3 DEF Typed, Stores
<1>6. Placement'
  BY <1>1, <1>2, <1>3, <1>5 DEF StoreInv, Placement, BetweenLists
<1>7. EventPlacement'
  BY <1>1, <1>2, <1>3, <1>5
     DEF StoreInv, EventPlacement, BetweenLists, Blocked, Delayed
<1>8. \A u \in allocated' : store'.generic[u] \in ReadyLists
  BY <1>2, <1>3, <1>4, <1>5 DEF Typed
<1>. QED BY <1>2, <1>3, <1>6, <1>7, <1>8
         DEF StoreInv, StoreConsistent, CurrentAllocated, ReadyBeforeStart,
             LoopCaller, RunningReady

-----------------------------------------------------------------------------
(* Readying a task, and holding one back *)

(* One task goes to the ready list of its priority and leaves its event list. *)
LEMMA ReadiedStore ==
  ASSUME Typed, StoreInv, NEW t \in allocated, ~BetweenLists(t),
         StoreOK(store'),
         store'.generic = [store.generic EXCEPT
                             ![t] = pxReadyTasksLists(uxPriority[t])],
         store'.event = [store.event EXCEPT ![t] = NULL],
         UNCHANGED <<uxPriority, allocated, pxCurrentTCB, xSchedulerRunning,
                     pc>>,
         LoopCaller',
         xSchedulerRunning /\ MustBeReady(pxCurrentTCB)'
            => MustBeReady(pxCurrentTCB)
  PROVE  StoreInv'
<1>1. t \in TCB /\ pxReadyTasksLists(uxPriority[t]) \in ReadyLists
  BY ListNames DEF Typed
<1>2. /\ \A u : store'.generic[u] = IF u = t
                    THEN pxReadyTasksLists(uxPriority[t]) ELSE store.generic[u]
      /\ \A u \in TCB : store'.event[u] = IF u = t THEN NULL ELSE store.event[u]
  BY <1>1 DEF Typed, Stores
<1>3. Placement'
  BY <1>1, <1>2 DEF StoreInv, Placement, BetweenLists
<1>4. EventPlacement'
  BY <1>2 DEF StoreInv, EventPlacement, Blocked, Delayed
<1>5. CurrentAllocated' /\ ReadyBeforeStart'
  BY <1>1, <1>2 DEF StoreInv, CurrentAllocated, ReadyBeforeStart
<1>6. RunningReady'
  BY <1>1, <1>2 DEF StoreInv, RunningReady
<1>. QED BY <1>3, <1>4, <1>5, <1>6 DEF StoreInv, StoreConsistent

(* One task that is blocked, or waits for an event already, is held in the
   pending-ready list. *)
LEMMA HeldBackStore ==
  ASSUME Typed, StoreInv, NEW t \in allocated,
         Blocked(t) \/ store.event[t] # NULL,
         StoreOK(store'),
         store'.generic = store.generic,
         store'.event = [store.event EXCEPT ![t] = xPendingReadyList],
         UNCHANGED <<uxPriority, allocated, pxCurrentTCB, xSchedulerRunning>>,
         \A u \in TCB : BetweenLists(u) <=> BetweenLists(u)',
         \A u \in TCB : pc[u] \in {"placeGeneric", "placeInsert"}
                          => pc'[u] \in {"placeGeneric", "placeInsert"},
         LoopCaller',
         xSchedulerRunning /\ MustBeReady(pxCurrentTCB)'
            => MustBeReady(pxCurrentTCB)
  PROVE  StoreInv'
<1>1. t \in TCB
  BY DEF Typed
<1>2. \A u \in TCB : store'.event[u] = IF u = t THEN xPendingReadyList
                                       ELSE store.event[u]
  BY <1>1 DEF Typed, Stores
<1>3. Placement'
  BY <1>1, <1>2 DEF StoreInv, Placement
<1>4. EventPlacement'
  BY <1>1, <1>2 DEF StoreInv, EventPlacement, Blocked, Delayed
<1>5. CurrentAllocated' /\ ReadyBeforeStart' /\ RunningReady'
  BY DEF StoreInv, CurrentAllocated, ReadyBeforeStart, RunningReady
<1>. QED BY <1>3, <1>4, <1>5 DEF StoreInv, StoreConsistent

(* xTaskRemoveFromEventList does the one or the other to the head of the event
   list.  The head is blocked when the scheduler is not suspended, because no
   task is inside vTaskPlaceOnEventList then. *)
LEMMA EventRemovalStore ==
  ASSUME Typed, LockInv, StoreInv, phase \in {"run", "give"}, NEW e \in Event,
         HasWaiter(e), RemoveFromEventList(e)
  PROVE  \E t \in allocated :
           /\ t = OwnerOfHead(store, EventList(e))
           /\ store.event[t] # NULL
           /\ StoreOK(store')
           /\ IF uxSchedulerSuspended = 0
              THEN /\ ~BetweenLists(t)
                   /\ store'.generic = [store.generic EXCEPT
                           ![t] = pxReadyTasksLists(uxPriority[t])]
                   /\ store'.event = [store.event EXCEPT ![t] = NULL]
              ELSE /\ store'.generic = store.generic
                   /\ store'.event = [store.event EXCEPT
                                        ![t] = xPendingReadyList]
<1> DEFINE t == OwnerOfHead(store, EventList(e))
<1>0. t = OwnerOfHead(store, EventList(e))
  OBVIOUS
<1>1. EventList(e) \in EventLists /\ xPendingReadyList \in EventLists
  BY ListNames
<1>2. t \in allocated /\ store.event[t] = EventList(e)
  BY <1>1, HeadEvent DEF HasWaiter
<1>3. /\ t \in TCB /\ store.event[t] # NULL
      /\ pxReadyTasksLists(uxPriority[t]) \in GenericLists
  BY <1>1, <1>2, ListNames, ListsDisjoint DEF Typed
<1>4. CASE uxSchedulerSuspended = 0
  <2>1. ~BetweenLists(t)
    BY <1>3, <1>4 DEF LockInv, WindowsAlone, TickOutsideWindows, BetweenLists,
                      Windows
  <2>2. store.generic[t] # NULL
    BY <1>2, <2>1, InOneList DEF StoreInv
  <2>3. store' = InsertEndGeneric(RemoveGeneric(RemoveEvent(store, t), t),
                                  pxReadyTasksLists(uxPriority[t]), t)
    BY <1>4 DEF RemoveFromEventList, ListsAccessible, AddTaskToReadyQueue
  <2>. HIDE DEF t
  <2>4. /\ StoreOK(store')
        /\ store'.generic = [store.generic EXCEPT
                                ![t] = pxReadyTasksLists(uxPriority[t])]
        /\ store'.event = [store.event EXCEPT ![t] = NULL]
    BY <1>3, <2>2, <2>3, ReadyFromEventOK, SMTT(30)
       DEF Typed, StoreInv, StoreConsistent
  <2>. QED BY <1>0, <1>2, <1>3, <1>4, <2>1, <2>4
<1>5. CASE uxSchedulerSuspended # 0
  <2>1. store' = InsertEndEvent(RemoveEvent(store, t), xPendingReadyList, t)
    BY <1>5 DEF RemoveFromEventList, ListsAccessible
  <2>. HIDE DEF t
  <2>2. /\ StoreOK(store')
        /\ store'.generic = store.generic
        /\ store'.event = [store.event EXCEPT ![t] = xPendingReadyList]
    BY <1>1, <1>3, <2>1, MoveEventOK DEF Typed, StoreInv, StoreConsistent
  <2>. QED BY <1>0, <1>2, <1>3, <1>5, <2>2
<1>. QED BY <1>4, <1>5

(* The whole of the signalling actions, for a task or an interrupt. *)
LEMMA SignalStore ==
  ASSUME Typed, LockInv, StoreInv, phase = "run", NEW e \in Event,
         HasWaiter(e), RemoveFromEventList(e),
         UNCHANGED <<uxPriority, allocated, pxCurrentTCB, xSchedulerRunning,
                     pc, phase, uxSchedulerSuspended>>,
         yieldPending => yieldPending', yieldPending' \in BOOLEAN
  PROVE  StoreInv'
<1>1. LoopCaller'
  BY DEF LoopCaller
<1>2. xSchedulerRunning /\ MustBeReady(pxCurrentTCB)'
        => MustBeReady(pxCurrentTCB)
  BY DEF MustBeReady, Typed
<1>3. PICK t \in allocated :
           /\ store.event[t] # NULL
           /\ StoreOK(store')
           /\ IF uxSchedulerSuspended = 0
              THEN /\ ~BetweenLists(t)
                   /\ store'.generic = [store.generic EXCEPT
                           ![t] = pxReadyTasksLists(uxPriority[t])]
                   /\ store'.event = [store.event EXCEPT ![t] = NULL]
              ELSE /\ store'.generic = store.generic
                   /\ store'.event = [store.event EXCEPT
                                        ![t] = xPendingReadyList]
  BY EventRemovalStore
<1>4. CASE uxSchedulerSuspended = 0
  BY <1>1, <1>2, <1>3, <1>4, ReadiedStore
<1>5. CASE uxSchedulerSuspended # 0
  BY <1>1, <1>2, <1>3, <1>5, HeldBackStore DEF BetweenLists
<1>. QED BY <1>4, <1>5

-----------------------------------------------------------------------------
(* Inside the API calls *)

(* What is known of a task that makes a step. *)
LEMMA RunningTask ==
  ASSUME Typed, LockInv, StoreInv, NEW t \in TCB, Runs(t)
  PROVE  /\ xSchedulerRunning /\ phase = "run" /\ ~yieldPending
         /\ pxCurrentTCB = t /\ t \in allocated
         /\ \A u \in TCB : u # t => pc[u] \notin Windows
         /\ \A u \in TCB : u # t => ~BetweenLists(u)
         /\ pc[t] \in {"app", "taken", "delay", "until", "inherit", "place",
                       "placeGeneric", "reapRead", "reapFull", "reapEmpty",
                       "reap", "idleYield"} =>
              store.generic[t] \in ReadyLists
<1>1. xSchedulerRunning /\ phase = "run" /\ ~yieldPending /\ pxCurrentTCB = t
  BY DEF Runs, InterruptsEnabled
<1>2. t \in allocated
  BY <1>1, NullAssumption DEF StoreInv, CurrentAllocated, TCB
<1>3. \A u \in TCB : u # t => pc[u] \notin Windows
  BY <1>1 DEF LockInv, WindowsAlone
<1>. QED BY <1>1, <1>2, <1>3
         DEF StoreInv, RunningReady, MustBeReady, BetweenLists, Windows

(* Steps of the running task that take it off its ready list. *)
LEMMA UnlinkStore ==
  ASSUME Typed, LockInv, StoreInv, NEW t \in TCB, Runs(t),
         pc[t] \in {"delay", "until", "placeGeneric"},
         store' = RemoveGeneric(store, t),
         NEW point \in {"insert", "placeInsert"},
         Goto(t, point), pc[t] = "placeGeneric" <=> point = "placeInsert",
         UNCHANGED <<uxPriority, allocated, pxCurrentTCB, xSchedulerRunning,
                     phase, yieldPending>>
  PROVE  StoreInv'
<1>1. /\ xSchedulerRunning /\ phase = "run" /\ pxCurrentTCB = t
      /\ t \in allocated /\ store.generic[t] \in ReadyLists
  BY RunningTask
<1>2. store.generic[t] # NULL
  BY <1>1, ListNames, ListsDisjoint
<1>3. /\ StoreOK(store')
      /\ store'.generic = [store.generic EXCEPT ![t] = NULL]
      /\ store'.event = store.event
  BY <1>2, RemoveGenericOK DEF Typed, StoreInv, StoreConsistent
<1>4. /\ \A u \in TCB : store'.generic[u] =
                          IF u = t THEN NULL ELSE store.generic[u]
      /\ \A u \in TCB : pc'[u] = IF u = t THEN point ELSE pc[u]
  BY <1>3 DEF Typed, Stores, Goto
<1>5. Placement'
  BY <1>1, <1>3, <1>4 DEF StoreInv, Placement, BetweenLists
<1>6. EventPlacement'
  <2>1. ~Blocked(t)
    BY <1>1, ListNames DEF Blocked, Delayed
  <2>. QED BY <1>3, <1>4, <2>1 DEF StoreInv, EventPlacement, Blocked, Delayed
<1>. QED BY <1>1, <1>3, <1>4, <1>5, <1>6
         DEF StoreInv, StoreConsistent, CurrentAllocated, ReadyBeforeStart,
             LoopCaller, RunningReady, MustBeReady

(* Steps of the running task that put it into a list to block. *)
LEMMA BlockStore ==
  ASSUME Typed, LockInv, StoreInv, NEW t \in TCB, Runs(t), BetweenLists(t),
         StoreOK(store'),
         NEW l \in DelayLists \cup {xSuspendedTaskList},
         store'.generic = [store.generic EXCEPT ![t] = l],
         store'.event = store.event,
         NEW point \in {"unlock", "resume"}, Goto(t, point),
         UNCHANGED <<uxPriority, allocated, pxCurrentTCB, xSchedulerRunning,
                     phase, yieldPending>>
  PROVE  StoreInv'
<1>1. /\ xSchedulerRunning /\ phase = "run" /\ pxCurrentTCB = t
      /\ t \in allocated
  BY RunningTask
<1>2. /\ \A u \in TCB : store'.generic[u] =
                          IF u = t THEN l ELSE store.generic[u]
      /\ \A u \in TCB : pc'[u] = IF u = t THEN point ELSE pc[u]
  BY DEF Typed, Stores, Goto
<1>3. Placement'
  BY <1>1, <1>2 DEF StoreInv, Placement, BetweenLists
<1>4. EventPlacement'
  BY <1>1, <1>2 DEF StoreInv, EventPlacement, Blocked, Delayed
<1>. QED BY <1>1, <1>2, <1>3, <1>4
         DEF StoreInv, StoreConsistent, CurrentAllocated, ReadyBeforeStart,
             LoopCaller, RunningReady, MustBeReady

(* Other steps of the running task, from point to point. *)
LEMMA GotoStore ==
  ASSUME Typed, LockInv, StoreInv, NEW t \in TCB, Runs(t), ~BetweenLists(t),
         pc[t] \notin {"placeGeneric", "placeInsert"},
         UNCHANGED <<store, uxPriority, allocated, pxCurrentTCB,
                     xSchedulerRunning>>,
         NEW point, Goto(t, point), point \notin {"insert", "placeInsert"},
         LoopCaller',
         MustBeReady(t)' => MustBeReady(t)
  PROVE  StoreInv'
<1>1. pxCurrentTCB = t
  BY RunningTask
<1>2. \A u \in TCB : pc'[u] = IF u = t THEN point ELSE pc[u]
  BY DEF Typed, Goto
<1>3. \A u \in TCB : BetweenLists(u) <=> BetweenLists(u)'
  BY <1>2 DEF BetweenLists
<1>4. \A u \in TCB : pc[u] \in {"placeGeneric", "placeInsert"}
                          => pc'[u] \in {"placeGeneric", "placeInsert"}
  BY <1>2
<1>. QED BY <1>1, <1>3, <1>4, UnchangedStore

(* The event item of the running task goes into an event list, by whatever
   value it has. *)
LEMMA PlacedStore ==
  ASSUME Typed, LockInv, StoreInv, NEW t \in TCB, Runs(t), pc[t] = "place",
         NEW e \in Event, NEW value,
         store' = InsertEvent(store, EventList(e), value, t),
         Goto(t, "placeGeneric"),
         UNCHANGED <<uxPriority, allocated, pxCurrentTCB, xSchedulerRunning,
                     phase>>
  PROVE  /\ StoreInv'
         /\ store'.event = [store.event EXCEPT ![t] = EventList(e)]
<1>1. /\ xSchedulerRunning /\ phase = "run" /\ pxCurrentTCB = t
      /\ t \in allocated /\ store.generic[t] \in ReadyLists
  BY RunningTask
<1>2. store.event[t] = NULL
  <2>1. ~Blocked(t)
    BY <1>1, ListNames DEF Blocked, Delayed
  <2>. QED BY <2>1 DEF StoreInv, EventPlacement
<1>3. /\ StoreOK(store')
      /\ store'.event = [store.event EXCEPT ![t] = EventList(e)]
      /\ store'.generic = store.generic
  BY <1>2, InsertEventOK, ListNames DEF Typed, StoreInv, StoreConsistent
<1>4. /\ \A u \in TCB : store'.event[u] =
                          IF u = t THEN EventList(e) ELSE store.event[u]
      /\ \A u \in TCB : pc'[u] = IF u = t THEN "placeGeneric" ELSE pc[u]
  BY <1>3 DEF Typed, Stores, Goto
<1>5. Placement'
  BY <1>1, <1>3, <1>4 DEF StoreInv, Placement, BetweenLists
<1>6. EventPlacement'
  BY <1>3, <1>4 DEF StoreInv, EventPlacement, Blocked, Delayed
<1>. QED BY <1>1, <1>3, <1>4, <1>5, <1>6
         DEF StoreInv, StoreConsistent, CurrentAllocated, ReadyBeforeStart,
             LoopCaller, RunningReady

LEMMA CallStepStore ==
  ASSUME Typed, LockInv, StoreInv, NEW t \in TCB, CallStep(t)
  PROVE  StoreInv'
<1>. USE DEF tickVars, listVars, delayVars, taskVars, suspendVars, loopVars,
             runVars
<1>1. CASE YieldWithinAPI(t)
  <2>1. LoopCaller' /\ (MustBeReady(t)' => MustBeReady(t))
    BY <1>1 DEF YieldWithinAPI, RequestSwitch, RunsAt, Runs, InterruptsEnabled,
                Goto, MustBeReady, LoopCaller, Typed
  <2>. QED BY <1>1, <2>1, GotoStore
           DEF YieldWithinAPI, RequestSwitch, RunsAt, BetweenLists
<1>2. CASE DelayUnlink(t)
  BY <1>2, UnlinkStore DEF DelayUnlink, UnlinkToWakeAt, RunsAt
<1>3. CASE UntilDecide(t)
  <2>1. \/ store' = RemoveGeneric(store, t) /\ Goto(t, "insert")
        \/ store' = store /\ Goto(t, "resume")
    BY <1>3 DEF UntilDecide, UnlinkToWakeAt
  <2>2. CASE store' = RemoveGeneric(store, t) /\ Goto(t, "insert")
    BY <1>3, <2>2, UnlinkStore DEF UntilDecide, RunsAt
  <2>3. CASE store' = store /\ Goto(t, "resume")
    <3>1. LoopCaller' /\ (MustBeReady(t)' => MustBeReady(t))
      BY <1>3, <2>3 DEF UntilDecide, RunsAt, Runs, InterruptsEnabled, Goto,
                        MustBeReady, LoopCaller, Typed
    <3>. QED BY <1>3, <2>3, <3>1, GotoStore
             DEF UntilDecide, RunsAt, BetweenLists
  <2>. QED BY <2>1, <2>2, <2>3
<1>4. CASE DelayInsert(t)
  <2> DEFINE l == DelayListFor(xItemValue[t])
  <2>1. l \in DelayLists
    BY DEF DelayListFor, Typed
  <2>2. /\ Runs(t) /\ BetweenLists(t) /\ store.generic[t] = NULL
        /\ store' = InsertGeneric(store, l, xItemValue, t)
    BY <1>4, RunningTask
       DEF DelayInsert, RunsAt, BetweenLists, StoreInv, Placement
  <2>. HIDE DEF l
  <2>3. /\ StoreOK(store')
        /\ store'.generic = [store.generic EXCEPT ![t] = l]
        /\ store'.event = store.event
    BY <2>1, <2>2, InsertGenericOK, ListNames
       DEF Typed, StoreInv, StoreConsistent
  <2>. QED BY <1>4, <2>1, <2>2, <2>3, BlockStore DEF DelayInsert
<1>5. CASE PlaceEventItem(t)
  <2>1. PICK e \in Event :
           store' = InsertEvent(store, EventList(e), EventItemValue, t)
    BY <1>5 DEF PlaceEventItem
  <2>. QED BY <1>5, <2>1, PlacedStore DEF PlaceEventItem, RunsAt
<1>6. CASE PlaceUnlink(t)
  BY <1>6, UnlinkStore DEF PlaceUnlink, RunsAt
<1>7. CASE PlaceInsert(t)
  <2>1. Runs(t) /\ BetweenLists(t) /\ store.generic[t] = NULL
    BY <1>7, RunningTask
       DEF PlaceInsert, RunsAt, BetweenLists, StoreInv, Placement
  <2>2. \/ store' = InsertEndGeneric(store, xSuspendedTaskList, t)
        \/ store' = InsertGeneric(store, DelayListFor(xItemValue'[t]),
                                  xItemValue', t)
    BY <1>7 DEF PlaceInsert
  <2>3. CASE store' = InsertEndGeneric(store, xSuspendedTaskList, t)
    <3>1. /\ StoreOK(store')
          /\ store'.generic = [store.generic EXCEPT ![t] = xSuspendedTaskList]
          /\ store'.event = store.event
      BY <2>1, <2>3, InsertEndGenericOK, ListNames
         DEF Typed, StoreInv, StoreConsistent
    <3>. QED BY <1>7, <2>1, <3>1, BlockStore DEF PlaceInsert
  <2>4. CASE store' = InsertGeneric(store, DelayListFor(xItemValue'[t]),
                                    xItemValue', t)
    <3> DEFINE l == DelayListFor(xItemValue'[t])
               v == xItemValue'
    <3>1. l \in DelayLists
      BY DEF DelayListFor, Typed
    <3>2. store' = InsertGeneric(store, l, v, t)
      BY <2>4
    <3>. HIDE DEF l, v
    <3>3. /\ StoreOK(store')
          /\ store'.generic = [store.generic EXCEPT ![t] = l]
          /\ store'.event = store.event
      BY <2>1, <3>1, <3>2, InsertGenericOK, ListNames
         DEF Typed, StoreInv, StoreConsistent
    <3>. QED BY <1>7, <2>1, <3>1, <3>3, BlockStore DEF PlaceInsert
  <2>. QED BY <2>2, <2>3, <2>4
<1>8. CASE QueueUnlock(t)
  <2>1. /\ Runs(t) /\ phase = "run" /\ uxSchedulerSuspended = 1
        /\ pc[t] = "unlock" /\ Goto(t, "resume")
        /\ UNCHANGED <<uxPriority, allocated, pxCurrentTCB, xSchedulerRunning,
                       phase, uxSchedulerSuspended, yieldPending>>
    BY <1>8 DEF QueueUnlock, RunsAt, Runs, InterruptsEnabled, LockInv,
                WindowsAlone, Windows
  <2>2. LoopCaller' /\ (MustBeReady(t)' => MustBeReady(t))
    BY <2>1 DEF Goto, MustBeReady, LoopCaller, Typed
  <2>3. CASE store' = store
    BY <2>1, <2>2, <2>3, GotoStore DEF BetweenLists
  <2>4. ASSUME NEW e \in Event, HasWaiter(e), RemoveFromEventList(e)
        PROVE  StoreInv'
    <3>1. PICK u \in allocated :
             /\ store.event[u] # NULL
             /\ StoreOK(store')
             /\ store'.generic = store.generic
             /\ store'.event = [store.event EXCEPT ![u] = xPendingReadyList]
      <4>1. uxSchedulerSuspended # 0
        BY <2>1
      <4>. QED BY <2>1, <2>4, <4>1, EventRemovalStore
    <3>2. \A v \in TCB : pc'[v] = IF v = t THEN "resume" ELSE pc[v]
      BY <2>1 DEF Goto, Typed
    <3>3. /\ \A v \in TCB : BetweenLists(v) <=> BetweenLists(v)'
          /\ \A v \in TCB : pc[v] \in {"placeGeneric", "placeInsert"}
                              => pc'[v] \in {"placeGeneric", "placeInsert"}
      BY <2>1, <3>2 DEF BetweenLists
    <3>4. pxCurrentTCB = t
      BY <2>1 DEF Runs
    <3>. QED BY <2>1, <2>2, <3>1, <3>3, <3>4, HeldBackStore
  <2>. QED BY <1>8, <2>3, <2>4 DEF QueueUnlock
<1>9. CASE ResumeAll(t)
  <2>1. /\ Runs(t)
        /\ pc[t] \in {"app", "resume", "reapEmpty", "reapFull"}
        /\ pc[t] \in {"resume", "reapEmpty", "reapFull"}
             => uxSchedulerSuspended = 1
        /\ pxCurrentTCB = t /\ phase = "run" /\ ~yieldPending
        /\ UNCHANGED <<store, uxPriority, allocated, pxCurrentTCB,
                       xSchedulerRunning, yieldPending>>
    BY <1>9 DEF ResumeAll, RunsApp, RunsAt, Runs, InterruptsEnabled, LockInv,
                WindowsAlone, Windows
  <2>2. CASE phase' = "drain" /\ pc' = pc
    <3>1. LoopCaller' /\ (MustBeReady(t)' => MustBeReady(t))
      BY <2>1, <2>2 DEF LoopCaller, MustBeReady
    <3>2. \A u \in TCB : BetweenLists(u) <=> BetweenLists(u)'
      BY <2>2 DEF BetweenLists
    <3>. QED BY <2>1, <2>2, <3>1, <3>2, UnchangedStore
  <2>3. CASE phase' = phase /\ Goto(t, AfterResumeAll(pc[t], FALSE))
    <3> DEFINE point == AfterResumeAll(pc[t], FALSE)
    <3>1. LoopCaller'
      BY <2>1, <2>3 DEF LoopCaller
    <3>2. pc'[t] = point
      BY <2>3 DEF Goto, Typed
    <3>3. pc[t] = "resume" => point = "yield" /\ uxSchedulerSuspended' = 0
      BY <1>9, <2>1 DEF AfterResumeAll, ResumeAll
    <3>4. pc[t] # "resume" => point \in {"app", "reap", "idleYield"}
      BY <2>1 DEF AfterResumeAll
    <3>5. Goto(t, point)
      BY <2>3
    <3>. HIDE DEF point
    <3>6. MustBeReady(t)' => MustBeReady(t)
      <4>1. CASE pc[t] = "resume"
        BY <3>2, <3>3, <4>1 DEF MustBeReady
      <4>2. CASE pc[t] # "resume"
        BY <2>1, <4>2 DEF MustBeReady
      <4>. QED BY <4>1, <4>2
    <3>. QED BY <2>1, <3>1, <3>3, <3>4, <3>5, <3>6, GotoStore DEF BetweenLists
  <2>. QED BY <1>9, <2>2, <2>3 DEF ResumeAll
<1>. QED BY <1>1, <1>2, <1>3, <1>4, <1>5, <1>6, <1>7, <1>8, <1>9 DEF CallStep

-----------------------------------------------------------------------------
(* The API calls *)

(* vTaskResume and the like: a task in the suspended list that waits for
   nothing is readied. *)
LEMMA ResumedStore ==
  ASSUME Typed, StoreInv, NEW t \in allocated, IsTaskSuspended(t),
         AddTaskToReadyQueue(RemoveGeneric(store, t), t, uxPriority[t]),
         UNCHANGED <<uxPriority, allocated, pxCurrentTCB, xSchedulerRunning,
                     pc>>,
         LoopCaller',
         xSchedulerRunning /\ MustBeReady(pxCurrentTCB)'
            => MustBeReady(pxCurrentTCB)
  PROVE  StoreInv'
<1>1. t \in TCB /\ pxReadyTasksLists(uxPriority[t]) \in GenericLists
  BY ListNames DEF Typed
<1>2. store.generic[t] # NULL /\ store.event[t] = NULL
  BY ListNames, ListsDisjoint DEF IsTaskSuspended
<1>3. ~BetweenLists(t)
  BY <1>1, <1>2 DEF StoreInv, Placement
<1>4. /\ StoreOK(store')
      /\ store'.generic = [store.generic EXCEPT
                              ![t] = pxReadyTasksLists(uxPriority[t])]
      /\ store'.event = store.event
  BY <1>1, <1>2, MoveGenericOK
     DEF AddTaskToReadyQueue, Typed, StoreInv, StoreConsistent
<1>5. store'.event = [store.event EXCEPT ![t] = NULL]
  BY <1>1, <1>2, <1>4 DEF Typed, Stores
<1>. QED BY <1>3, <1>4, <1>5, ReadiedStore

(* vTaskSuspend and vTaskDelete: task t leaves whatever lists it is in. *)
LEMMA MovedStore ==
  ASSUME Typed, LockInv, StoreInv, NEW c \in TCB, Runs(c), pc[c] = "app",
         NEW t \in Live, t = c => uxSchedulerSuspended = 0,
         NEW l \in {xSuspendedTaskList, xTasksWaitingTermination},
         store' = InsertEndGeneric(
                    RemoveEventIfLinked(RemoveGeneric(store, t), t), l, t),
         Goto(c, IF t = c THEN "yield" ELSE "app"),
         UNCHANGED <<uxPriority, allocated, pxCurrentTCB, xSchedulerRunning,
                     phase, yieldPending, uxSchedulerSuspended>>
  PROVE  StoreInv'
<1>1. /\ xSchedulerRunning /\ phase = "run" /\ pxCurrentTCB = c
      /\ \A u \in TCB : ~BetweenLists(u)
      /\ store.generic[c] \in ReadyLists
  BY RunningTask DEF BetweenLists
<1>2. t \in TCB /\ t \in allocated
  BY DEF Live, Typed
<1>3. store.generic[t] # NULL /\ l \in GenericLists /\ l # NULL
  BY <1>1, <1>2, InOneList, ListNames, ListsDisjoint DEF StoreInv
<1>4. /\ StoreOK(store')
      /\ store'.generic = [store.generic EXCEPT ![t] = l]
      /\ store'.event = [store.event EXCEPT ![t] = NULL]
  BY <1>2, <1>3, MoveTaskOK DEF Typed, StoreInv, StoreConsistent
<1>5. /\ \A u \in TCB : store'.generic[u] =
                          IF u = t THEN l ELSE store.generic[u]
      /\ \A u \in TCB : store'.event[u] =
                          IF u = t THEN NULL ELSE store.event[u]
      /\ pc'[c] = IF t = c THEN "yield" ELSE "app"
      /\ \A u \in TCB : u # c => pc'[u] = pc[u]
  BY <1>2, <1>4 DEF Typed, Stores, Goto
<1>6. \A u \in TCB : ~BetweenLists(u)'
  BY <1>1, <1>5 DEF BetweenLists
<1>7. Placement'
  BY <1>1, <1>2, <1>5, <1>6 DEF StoreInv, Placement
<1>8. EventPlacement'
  BY <1>5 DEF StoreInv, EventPlacement, Blocked, Delayed
<1>9. RunningReady'
  BY <1>1, <1>2, <1>5 DEF RunningReady, MustBeReady
<1>. QED BY <1>1, <1>4, <1>7, <1>8, <1>9
         DEF StoreInv, StoreConsistent, CurrentAllocated, ReadyBeforeStart,
             LoopCaller

(* A task is given another priority; where it is ready it moves to the list of
   that priority. *)
LEMMA ReprioritisedStore ==
  ASSUME Typed, LockInv, StoreInv, NEW t \in TCB, ~BetweenLists(t),
         NEW new \in Priority, uxPriority' = [uxPriority EXCEPT ![t] = new],
         IF store.generic[t] = pxReadyTasksLists(uxPriority[t])
         THEN store' = InsertEndGeneric(RemoveGeneric(store, t),
                                        pxReadyTasksLists(new), t)
         ELSE store' = store,
         UNCHANGED <<allocated, pxCurrentTCB, xSchedulerRunning>>,
         \A u \in TCB : BetweenLists(u) <=> BetweenLists(u)',
         \A u \in TCB : pc[u] \in {"placeGeneric", "placeInsert"}
                          => pc'[u] \in {"placeGeneric", "placeInsert"},
         LoopCaller',
         xSchedulerRunning /\ MustBeReady(pxCurrentTCB)'
            => MustBeReady(pxCurrentTCB)
  PROVE  StoreInv'
<1> DEFINE l == pxReadyTasksLists(new)
<1>1. /\ pxReadyTasksLists(uxPriority[t]) \in ReadyLists
      /\ l \in ReadyLists
  BY ListNames DEF Typed
<1>2. \A v \in TCB : uxPriority'[v] = IF v = t THEN new ELSE uxPriority[v]
  BY DEF Typed
<1>. HIDE DEF l
<1>3. /\ StoreOK(store')
      /\ store'.event = store.event
      /\ \A v \in TCB : v # t => store'.generic[v] = store.generic[v]
      /\ store'.generic[t] =
           IF store.generic[t] = pxReadyTasksLists(uxPriority[t])
           THEN l ELSE store.generic[t]
  <2>1. CASE store.generic[t] = pxReadyTasksLists(uxPriority[t])
    <3>1. store.generic[t] # NULL /\ l \in GenericLists
      BY <1>1, <2>1, ListNames, ListsDisjoint
    <3>2. /\ StoreOK(store')
          /\ store'.generic = [store.generic EXCEPT ![t] = l]
          /\ store'.event = store.event
      BY <1>1, <2>1, <3>1, MoveGenericOK
         DEF Typed, StoreInv, StoreConsistent, l
    <3>. QED BY <1>1, <2>1, <3>2 DEF Typed, Stores
  <2>2. CASE store.generic[t] # pxReadyTasksLists(uxPriority[t])
    BY <2>2 DEF StoreInv, StoreConsistent
  <2>. QED BY <2>1, <2>2
<1>4. Placement'
  <2>1. t \notin allocated => store.generic[t] = NULL
    BY DEF StoreInv, Placement
  <2>2. t \notin allocated => store'.generic[t] = NULL
    BY <1>1, <1>3, <2>1, ListNames, ListsDisjoint
  <2>. QED BY <1>1, <1>2, <1>3, <2>2 DEF StoreInv, Placement, l
<1>5. EventPlacement'
  <2>1. Blocked(t) => Blocked(t)'
    BY <1>1, <1>3, ListNames DEF Blocked, Delayed
  <2>. QED BY <1>3, <2>1 DEF StoreInv, EventPlacement, Blocked, Delayed
<1>6. \A v \in allocated :
        store.generic[v] \in ReadyLists => store'.generic[v] \in ReadyLists
  BY <1>1, <1>3 DEF Typed
<1>7. CurrentAllocated' /\ ReadyBeforeStart'
  BY <1>6 DEF StoreInv, CurrentAllocated, ReadyBeforeStart
<1>8. RunningReady'
  <2>1. xSchedulerRunning => pxCurrentTCB \in allocated
    BY NullAssumption DEF LockInv, StoreInv, CurrentAllocated, TCB
  <2>. QED BY <1>6, <2>1 DEF StoreInv, RunningReady
<1>. QED BY <1>3, <1>4, <1>5, <1>7, <1>8 DEF StoreInv, StoreConsistent

LEMMA CallStore ==
  ASSUME Typed, LockInv, StoreInv, NEW t \in Task, Call(t)
  PROVE  StoreInv'
<1>. USE DEF tickVars, listVars, delayVars, taskVars, suspendVars, loopVars,
             runVars
<1>0. t \in TCB
  BY DEF TCB
<1>1. ASSUME NEW u \in Task, NEW p \in RequestedPriority, CreateTask(t, u, p)
      PROVE  StoreInv'
  <2>1. /\ Runs(t) /\ pc[t] = "app" /\ Create(u, p) /\ u \in TCB
        /\ UNCHANGED <<xSchedulerRunning, yieldPending>>
    BY <1>1 DEF CreateTask, RunsApp, RunsAt, TCB
  <2>2. /\ xSchedulerRunning /\ phase = "run" /\ pxCurrentTCB = t
        /\ t \in allocated /\ store.generic[t] \in ReadyLists
        /\ \A v \in TCB : ~BetweenLists(v)
        /\ \A v \in TCB : pc[v] \notin {"placeGeneric", "placeInsert"}
    BY <1>0, <2>1, RunningTask DEF BetweenLists, Windows
  <2>3. /\ StoreOK(store')
        /\ store'.generic = [store.generic EXCEPT
                               ![u] = pxReadyTasksLists(uxPriority'[u])]
        /\ store'.event = store.event
        /\ store.event[u] = NULL
        /\ uxPriority'[u] \in Priority
        /\ \A v \in TCB : v # u => uxPriority'[v] = uxPriority[v]
        /\ u \notin allocated /\ allocated' = allocated \cup {u}
        /\ pxCurrentTCB' = t
        /\ phase' = "run"
    BY <2>1, <2>2, CreateStore DEF StoreInv, CurrentAllocated, FirstFound
  <2>4. pxReadyTasksLists(uxPriority'[u]) \in ReadyLists
    BY <2>3, ListNames
  <2>5. \A v \in TCB : store'.generic[v] =
         IF v = u THEN pxReadyTasksLists(uxPriority'[u]) ELSE store.generic[v]
    BY <2>3 DEF Typed, Stores
  <2>6. \A v \in TCB : ~BetweenLists(v)'
    <3>1. \A v \in TCB : pc'[v] = pc[v] \/ pc'[v] \in {"app", "yield"}
      BY <1>0, <1>1, <2>1 DEF CreateTask, Typed
    <3>. QED BY <2>2, <3>1 DEF BetweenLists
  <2>7. Placement'
    BY <2>2, <2>3, <2>5, <2>6 DEF StoreInv, Placement
  <2>8. EventPlacement'
    BY <2>2, <2>3, <2>5 DEF StoreInv, EventPlacement, Blocked, Delayed
  <2>9. store'.generic[t] \in ReadyLists
    BY <1>0, <2>2, <2>4, <2>5
  <2>. QED BY <2>1, <2>2, <2>3, <2>7, <2>8, <2>9, NullAssumption
           DEF StoreInv, StoreConsistent, CurrentAllocated, ReadyBeforeStart,
               LoopCaller, RunningReady, TCB
<1>2. ASSUME Runs(t), pc[t] = "app", NEW point \in CallPoints, Goto(t, point),
             point \notin {"insert", "placeInsert"},
             UNCHANGED <<store, uxPriority, allocated, pxCurrentTCB,
                         xSchedulerRunning, phase>>
      PROVE  StoreInv'
  <2>1. LoopCaller' /\ MustBeReady(t)
    BY <1>2 DEF LoopCaller, MustBeReady, Runs, InterruptsEnabled
  <2>. QED BY <1>0, <1>2, <2>1, GotoStore DEF BetweenLists
<1>3. {"app", "yield", "delay", "until", "place"} \subseteq CallPoints
  BY DEF CallPoints, Windows
<1>4. CASE AppSuspendAll(t)
  BY <1>2, <1>3, <1>4 DEF AppSuspendAll, SuspendAll, RunsApp, RunsAt
<1>5. CASE TaskYield(t)
  BY <1>2, <1>3, <1>5 DEF TaskYield, RequestSwitch, RunsApp, RunsAt
<1>6. CASE DelayZero(t)
  BY <1>2, <1>3, <1>6 DEF DelayZero, MayBlock, RunsApp, RunsAt
<1>7. CASE DelaySuspend(t) \/ DelayUntilSuspend(t)
  BY <1>2, <1>3, <1>7 DEF DelaySuspend, DelayUntilSuspend, SuspendAll,
                          MayBlock, RunsApp, RunsAt
<1>8. ASSUME NEW e \in Event, QueueSuspend(t, e)
      PROVE  StoreInv'
  BY <1>2, <1>3, <1>8 DEF QueueSuspend, SuspendAll, MayBlock, RunsApp, RunsAt
<1>9. ASSUME NEW e \in Event, TaskSignals(t, e)
      PROVE  StoreInv'
  <2>1. /\ ~yieldPending /\ phase = "run"
        /\ HasWaiter(e) /\ RemoveFromEventList(e)
        /\ yieldPending' \in BOOLEAN
        /\ UNCHANGED <<uxPriority, allocated, pxCurrentTCB, xSchedulerRunning,
                       pc, phase, uxSchedulerSuspended>>
    BY <1>9 DEF TaskSignals, MayBlock, RunsApp, RunsAt, Runs,
                InterruptsEnabled, UnblocksHigher
  <2>. QED BY <2>1, SignalStore
<1>10. ASSUME NEW u \in Task, SuspendTask(t, u)
       PROVE  StoreInv'
  <2>1. /\ Runs(t) /\ pc[t] = "app" /\ u \in Live
        /\ u = t => uxSchedulerSuspended = 0
        /\ store' = InsertEndGeneric(
                      RemoveEventIfLinked(RemoveGeneric(store, u), u),
                      xSuspendedTaskList, u)
        /\ Goto(t, IF u = t THEN "yield" ELSE "app")
        /\ UNCHANGED <<uxPriority, allocated, pxCurrentTCB, xSchedulerRunning,
                       phase, yieldPending, uxSchedulerSuspended>>
    BY <1>10 DEF SuspendTask, RunsApp, RunsAt
  <2>. QED BY <1>0, <2>1, MovedStore
<1>11. ASSUME NEW u \in Task, DeleteTask(t, u)
       PROVE  StoreInv'
  <2>1. /\ Runs(t) /\ pc[t] = "app" /\ u \in Live
        /\ u = t => uxSchedulerSuspended = 0
        /\ store' = InsertEndGeneric(
                      RemoveEventIfLinked(RemoveGeneric(store, u), u),
                      xTasksWaitingTermination, u)
        /\ Goto(t, IF u = t THEN "yield" ELSE "app")
        /\ UNCHANGED <<uxPriority, allocated, pxCurrentTCB, xSchedulerRunning,
                       phase, yieldPending, uxSchedulerSuspended>>
    BY <1>11 DEF DeleteTask, Terminate, RunsApp, RunsAt
  <2>. QED BY <1>0, <2>1, MovedStore
<1>12. ASSUME NEW u \in Task, ResumeTask(t, u)
       PROVE  StoreInv'
  <2>1. /\ u \in allocated /\ IsTaskSuspended(u)
        /\ AddTaskToReadyQueue(RemoveGeneric(store, u), u, uxPriority[u])
        /\ UNCHANGED <<uxPriority, allocated, pxCurrentTCB, xSchedulerRunning,
                       pc, phase>>
    BY <1>12 DEF ResumeTask, Live
  <2>2. LoopCaller' /\ MustBeReady(pxCurrentTCB)
    BY <1>12 DEF ResumeTask, RunsApp, RunsAt, Runs, InterruptsEnabled,
                 LoopCaller, MustBeReady
  <2>. QED BY <2>1, <2>2, ResumedStore
<1>13. ASSUME NEW u \in Task, NEW p \in RequestedPriority, PrioritySet(t, u, p)
       PROVE  StoreInv'
  <2>1. /\ Runs(t) /\ pc[t] = "app" /\ u \in allocated
        /\ uxPriority' = [uxPriority EXCEPT ![u] = Capped(p)]
        /\ UNCHANGED <<allocated, pxCurrentTCB, xSchedulerRunning, pc, phase>>
        /\ IF store.generic[u] = pxReadyTasksLists(uxPriority[u])
           THEN store' = InsertEndGeneric(RemoveGeneric(store, u),
                                          pxReadyTasksLists(Capped(p)), u)
           ELSE store' = store
    BY <1>13 DEF PrioritySet, AddTaskToReadyQueue, Live, RunsApp, RunsAt
  <2>2. ~BetweenLists(u) /\ Capped(p) \in Priority
    <3>1. pxCurrentTCB = t /\ \A v \in TCB : v # t => ~BetweenLists(v)
      BY <1>0, <2>1, RunningTask
    <3>2. ~BetweenLists(t)
      BY <2>1 DEF BetweenLists
    <3>3. u \in TCB /\ p \in Nat
      BY PrioritiesAssumption DEF TCB, RequestedPriority
    <3>. QED BY <3>1, <3>2, <3>3, CappedType
  <2>3. LoopCaller' /\ MustBeReady(pxCurrentTCB)
    BY <2>1 DEF Runs, InterruptsEnabled, LoopCaller, MustBeReady
  <2>4. \A v \in TCB : BetweenLists(v) <=> BetweenLists(v)'
    BY <2>1 DEF BetweenLists
  <2>5. u \in TCB
    BY DEF TCB
  <2>. QED BY <2>1, <2>2, <2>3, <2>4, <2>5, ReprioritisedStore
<1>. QED BY <1>1, <1>4, <1>5, <1>6, <1>7, <1>8, <1>9, <1>10, <1>11, <1>12,
            <1>13 DEF Call

-----------------------------------------------------------------------------
(* The idle task *)

LEMMA ReapStore ==
  ASSUME Typed, LockInv, StoreInv, NEW t \in TCB,
         store.generic[t] = xTasksWaitingTermination, Reap(t)
  PROVE  StoreInv'
<1>. USE DEF suspendVars, loopVars, runVars
<1>0. Idle \in TCB
  BY DEF TCB
<1>1. /\ Runs(Idle) /\ pc[Idle] = "reap"
      /\ store' = RemoveGeneric(store, t)
      /\ allocated' = allocated \ {t}
      /\ Goto(Idle, "idleYield")
      /\ UNCHANGED <<uxPriority, pxCurrentTCB, xSchedulerRunning, phase>>
  BY DEF Reap, RunsAt
<1>2. /\ xSchedulerRunning /\ phase = "run" /\ pxCurrentTCB = Idle
      /\ Idle \in allocated /\ store.generic[Idle] \in ReadyLists
      /\ \A u \in TCB : ~BetweenLists(u)
      /\ \A u \in TCB : pc[u] \notin {"placeGeneric", "placeInsert"}
  BY <1>0, <1>1, RunningTask DEF BetweenLists, Windows
<1>3. /\ t # Idle /\ store.generic[t] # NULL /\ ~Blocked(t)
  BY <1>2, ListNames, ListsDisjoint DEF Blocked, Delayed
<1>4. store.event[t] = NULL
  BY <1>2, <1>3 DEF StoreInv, EventPlacement
<1>5. /\ StoreOK(store')
      /\ store'.generic = [store.generic EXCEPT ![t] = NULL]
      /\ store'.event = store.event
  BY <1>1, <1>3, RemoveGenericOK DEF Typed, StoreInv, StoreConsistent
<1>6. /\ \A u \in TCB : store'.generic[u] =
                          IF u = t THEN NULL ELSE store.generic[u]
      /\ \A u \in TCB : pc'[u] = IF u = Idle THEN "idleYield" ELSE pc[u]
  BY <1>1, <1>5 DEF Typed, Stores, Goto
<1>7. \A u \in TCB : ~BetweenLists(u)'
  BY <1>2, <1>6 DEF BetweenLists
<1>8. Placement'
  BY <1>1, <1>2, <1>4, <1>5, <1>6, <1>7 DEF StoreInv, Placement
<1>9. EventPlacement'
  BY <1>2, <1>4, <1>5, <1>6 DEF StoreInv, EventPlacement, Blocked, Delayed
<1>10. store'.generic[Idle] \in ReadyLists /\ Idle \in allocated'
  BY <1>0, <1>1, <1>2, <1>3, <1>6
<1>. QED BY <1>1, <1>2, <1>5, <1>8, <1>9, <1>10, NullAssumption
         DEF StoreInv, StoreConsistent, CurrentAllocated, ReadyBeforeStart,
             LoopCaller, RunningReady, TCB

LEMMA IdleStore ==
  ASSUME Typed, LockInv, StoreInv, IdleStep
  PROVE  StoreInv'
<1>. USE DEF tickVars, listVars, delayVars, taskVars, suspendVars, loopVars,
             runVars
<1>0. Idle \in TCB
  BY DEF TCB
<1>1. ASSUME Runs(Idle), MustBeReady(Idle), NEW point, Goto(Idle, point),
             pc[Idle] \in {"app", "reapRead", "idleYield"},
             point \notin {"insert", "placeInsert"},
             UNCHANGED <<store, uxPriority, allocated, pxCurrentTCB,
                         xSchedulerRunning, phase>>
      PROVE  StoreInv'
  <2>1. LoopCaller'
    BY <1>1 DEF LoopCaller, Runs, InterruptsEnabled
  <2>. QED BY <1>0, <1>1, <2>1, GotoStore DEF BetweenLists
<1>2. CASE IdleSuspend
  <2>1. MustBeReady(Idle)
    BY <1>2 DEF IdleSuspend, RunsAt, Runs, MustBeReady
  <2>. QED BY <1>1, <1>2, <2>1 DEF IdleSuspend, SuspendAll, RunsAt
<1>3. CASE IdleReadList
  <2>1. MustBeReady(Idle)
    BY <1>3 DEF IdleReadList, RunsAt, MustBeReady
  <2>. QED BY <1>1, <1>3, <2>1 DEF IdleReadList, RunsAt
<1>4. CASE IdleReap
  <2>1. PICK t : t = OwnerOfHead(store, xTasksWaitingTermination)
    OBVIOUS
  <2>2. t \in allocated /\ store.generic[t] = xTasksWaitingTermination
    BY <1>4, <2>1, HeadGeneric, ListNames DEF StoreInv, IdleReap
  <2>3. Reap(t)
    BY <1>4, <2>1 DEF IdleReap
  <2>. QED BY <2>2, <2>3, ReapStore DEF Typed
<1>5. CASE IdleLoop
  <2>1. Runs(Idle) /\ pc[Idle] \in {"app", "idleYield"} /\ MustBeReady(Idle)
    BY <1>5 DEF IdleLoop, RunsAt, Runs, MustBeReady
  <2>. QED BY <1>1, <1>5, <2>1 DEF IdleLoop
<1>. QED BY <1>2, <1>3, <1>4, <1>5 DEF IdleStep

-----------------------------------------------------------------------------
(* The masked loops *)

LEMMA MaskedStore ==
  ASSUME Typed, LockInv, StoreInv, MaskedStep
  PROVE  StoreInv'
<1>. USE DEF tickVars, listVars, delayVars, taskVars, suspendVars, loopVars,
             runVars
<1>1. CASE DrainPending
  <2> DEFINE t == OwnerOfHead(store, xPendingReadyList)
  <2>1. t \in allocated /\ store.event[t] = xPendingReadyList
    BY <1>1, HeadEvent, ListNames DEF DrainPending, PendingDrained
  <2>2. /\ t \in TCB /\ store.event[t] # NULL
        /\ pxReadyTasksLists(uxPriority[t]) \in GenericLists
    BY <2>1, ListNames, ListsDisjoint DEF Typed
  <2>3. store' = InsertEndGeneric(RemoveGeneric(RemoveEvent(store, t), t),
                                  pxReadyTasksLists(uxPriority[t]), t)
    BY <1>1 DEF DrainPending, AddTaskToReadyQueue
  <2>. HIDE DEF t
  <2>4. ~BetweenLists(t)
    BY <1>1, <2>2 DEF DrainPending, StoreInv, LoopCaller, LockInv,
                      WindowsAlone, BetweenLists, Windows
  <2>5. store.generic[t] # NULL
    BY <2>1, <2>4, InOneList DEF StoreInv
  <2>6. /\ StoreOK(store')
        /\ store'.generic = [store.generic EXCEPT
                                ![t] = pxReadyTasksLists(uxPriority[t])]
        /\ store'.event = [store.event EXCEPT ![t] = NULL]
    BY <2>2, <2>3, <2>5, ReadyFromEventOK DEF Typed, StoreInv, StoreConsistent
  <2>7. /\ UNCHANGED <<uxPriority, allocated, pxCurrentTCB, xSchedulerRunning,
                       pc, phase, yieldPending, uxSchedulerSuspended>>
    BY <1>1 DEF DrainPending
  <2>8. /\ LoopCaller'
        /\ MustBeReady(pxCurrentTCB)' => MustBeReady(pxCurrentTCB)
    BY <2>7 DEF StoreInv, LoopCaller, MustBeReady
  <2>. QED BY <2>1, <2>4, <2>6, <2>7, <2>8, ReadiedStore
<1>2. CASE WakeHead
  <2> DEFINE t == OwnerOfHead(store, pxDelayedTaskList)
  <2>1. pxDelayedTaskList \in GenericLists
    BY ListNames DEF Typed
  <2>2. t \in allocated /\ store.generic[t] = pxDelayedTaskList
    BY <1>2, <2>1, HeadGeneric DEF StoreInv, WakeHead, HeadIsDue
  <2>3. /\ t \in TCB /\ store.generic[t] # NULL
        /\ pxReadyTasksLists(uxPriority[t]) \in GenericLists
    BY <2>1, <2>2, ListNames, ListsDisjoint DEF Typed
  <2>4. store' = InsertEndGeneric(
                   RemoveEventIfLinked(RemoveGeneric(store, t), t),
                   pxReadyTasksLists(uxPriority[t]), t)
    BY <1>2 DEF WakeHead, AddTaskToReadyQueue
  <2>. HIDE DEF t
  <2>5. ~BetweenLists(t)
    BY <2>2, <2>3 DEF StoreInv, Placement
  <2>6. /\ StoreOK(store')
        /\ store'.generic = [store.generic EXCEPT
                                ![t] = pxReadyTasksLists(uxPriority[t])]
        /\ store'.event = [store.event EXCEPT ![t] = NULL]
    BY <2>3, <2>4, MoveTaskOK DEF Typed, StoreInv, StoreConsistent
  <2>7. /\ UNCHANGED <<uxPriority, allocated, pxCurrentTCB, xSchedulerRunning,
                       pc, phase, yieldPending, uxSchedulerSuspended>>
    BY <1>2 DEF WakeHead
  <2>8. /\ LoopCaller'
        /\ MustBeReady(pxCurrentTCB)' => MustBeReady(pxCurrentTCB)
    BY <2>7 DEF StoreInv, LoopCaller, MustBeReady
  <2>. QED BY <2>2, <2>5, <2>6, <2>7, <2>8, ReadiedStore
<1>3. CASE DrainDone \/ ReplayTick \/ ReplayTickDone \/ TickInterruptDone
  <2>1. /\ UNCHANGED <<store, uxPriority, allocated, pxCurrentTCB,
                       xSchedulerRunning, pc, uxSchedulerSuspended>>
        /\ yieldPending' = yieldPending \/ yieldPending' = TRUE
        /\ phase' \in {"drain", "replay", "replayWake"}
             => phase \in {"drain", "replay", "replayWake"}
    BY <1>3 DEF DrainDone, ReplayTick, ReplayTickDone, TickInterruptDone
  <2>2. /\ LoopCaller'
        /\ MustBeReady(pxCurrentTCB)' => MustBeReady(pxCurrentTCB)
    BY <2>1 DEF StoreInv, LoopCaller, MustBeReady
  <2>. QED BY <2>1, <2>2, UnchangedStore DEF BetweenLists
<1>4. CASE ResumeAllDone
  <2> DEFINE c == pxCurrentTCB
             yields == yieldRequired \/ xMissedYield
             point == AfterResumeAll(pc[c], yields)
  <2>1. /\ phase = "replay" /\ phase' = "run" /\ uxSchedulerSuspended = 0
        /\ Goto(c, point)
        /\ yieldPending' = (yieldPending \/ yields)
        /\ UNCHANGED <<store, uxPriority, allocated, pxCurrentTCB,
                       xSchedulerRunning, uxSchedulerSuspended>>
    BY <1>4 DEF ResumeAllDone, LockInv, MaskedUnsuspended
  <2>2. /\ c \in TCB /\ pc[c] \in {"app", "resume", "reapEmpty", "reapFull"}
    BY <2>1 DEF LockInv, QuietBeforeStart, StoreInv, LoopCaller
  <2>3. /\ pc[c] = "app" => point = "app"
        /\ pc[c] = "resume" => point = IF yields THEN "app" ELSE "yield"
        /\ pc[c] = "reapEmpty" => point = "idleYield"
        /\ pc[c] = "reapFull" => point = "reap"
    BY <2>2 DEF AfterResumeAll
  <2>. HIDE DEF yields, point
  <2>4. \A u \in TCB : pc'[u] = IF u = c THEN point ELSE pc[u]
    BY <2>1, <2>2 DEF Goto, Typed
  <2>5. \A u \in TCB : BetweenLists(u) <=> BetweenLists(u)'
    BY <2>2, <2>3, <2>4 DEF BetweenLists
  <2>6. \A u \in TCB : pc[u] \in {"placeGeneric", "placeInsert"}
                          => pc'[u] \in {"placeGeneric", "placeInsert"}
    BY <2>2, <2>3, <2>4
  <2>7. MustBeReady(pxCurrentTCB)' => MustBeReady(pxCurrentTCB)
    <3>1. pc'[c] = point /\ pxCurrentTCB' = c /\ uxSchedulerSuspended' = 0
      BY <2>1, <2>2, <2>4
    <3>2. yieldPending \/ yields => yieldPending'
      BY <2>1
    <3>3. CASE pc[c] = "resume" /\ yields
      BY <2>3, <3>1, <3>2, <3>3 DEF MustBeReady
    <3>4. CASE pc[c] = "resume" /\ ~yields
      BY <2>3, <3>1, <3>4 DEF MustBeReady
    <3>5. CASE pc[c] = "app"
      BY <2>3, <3>1, <3>2, <3>5 DEF MustBeReady
    <3>6. CASE pc[c] \in {"reapEmpty", "reapFull"}
      BY <3>6 DEF MustBeReady
    <3>. QED BY <2>2, <3>3, <3>4, <3>5, <3>6
  <2>. QED BY <2>1, <2>5, <2>6, <2>7, UnchangedStore DEF LoopCaller
<1>. QED BY <1>1, <1>2, <1>3, <1>4 DEF MaskedStep

-----------------------------------------------------------------------------
(* Interrupts and the context switch *)

LEMMA InterruptStore ==
  ASSUME Typed, LockInv, StoreInv, TickISR \/ OtherISR \/ Switch
  PROVE  StoreInv'
<1>. USE DEF tickVars, listVars, delayVars, taskVars, suspendVars, loopVars,
             runVars
<1>1. ASSUME UNCHANGED <<store, uxPriority, allocated, pxCurrentTCB,
                         xSchedulerRunning, pc, uxSchedulerSuspended>>,
             yieldPending => yieldPending' \/ uxSchedulerSuspended > 0,
             yieldPending' \in BOOLEAN,
             phase' \notin {"drain", "replay", "replayWake"}
      PROVE  StoreInv'
  <2>1. LoopCaller' /\ (MustBeReady(pxCurrentTCB)' => MustBeReady(pxCurrentTCB))
    BY <1>1 DEF LoopCaller, MustBeReady, Typed
  <2>. QED BY <1>1, <2>1, UnchangedStore DEF BetweenLists
<1>2. CASE TickInterrupt
  BY <1>1, <1>2 DEF TickInterrupt, Typed
<1>3. CASE TickInterruptMissed
  BY <1>1, <1>3 DEF TickInterruptMissed, InterruptsEnabled
<1>4. ASSUME NEW t \in Task, ResumeFromISR(t)
      PROVE  StoreInv'
  <2>1. /\ phase = "run" /\ t \in allocated /\ IsTaskSuspended(t)
        /\ UNCHANGED <<uxPriority, allocated, pxCurrentTCB, xSchedulerRunning,
                       pc, phase, uxSchedulerSuspended>>
    BY <1>4 DEF ResumeFromISR, InterruptsEnabled, Live
  <2>2. LoopCaller'
    BY <2>1 DEF LoopCaller
  <2>3. CASE ListsAccessible
    <3>1. /\ AddTaskToReadyQueue(RemoveGeneric(store, t), t, uxPriority[t])
          /\ yieldPending => yieldPending'
          /\ yieldPending' \in BOOLEAN
      BY <1>4, <2>3 DEF ResumeFromISR
    <3>2. MustBeReady(pxCurrentTCB)' => MustBeReady(pxCurrentTCB)
      BY <2>1, <3>1 DEF MustBeReady, Typed
    <3>. QED BY <2>1, <2>2, <3>1, <3>2, ResumedStore
  <2>4. CASE ~ListsAccessible
    <3>1. /\ store' = InsertEndEvent(store, xPendingReadyList, t)
          /\ yieldPending' = yieldPending
      BY <1>4, <2>4 DEF ResumeFromISR
    <3>2. t \in TCB /\ store.event[t] = NULL /\ Blocked(t)
      BY <2>1 DEF IsTaskSuspended, Blocked, Typed
    <3>3. /\ StoreOK(store')
          /\ store'.event = [store.event EXCEPT ![t] = xPendingReadyList]
          /\ store'.generic = store.generic
      BY <3>1, <3>2, InsertEndEventOK, ListNames
         DEF Typed, StoreInv, StoreConsistent
    <3>4. MustBeReady(pxCurrentTCB)' => MustBeReady(pxCurrentTCB)
      BY <2>1, <3>1 DEF MustBeReady
    <3>. QED BY <2>1, <2>2, <3>2, <3>3, <3>4, HeldBackStore DEF BetweenLists
  <2>. QED BY <2>3, <2>4
<1>5. ASSUME NEW e \in Event, InterruptSignals(e)
      PROVE  StoreInv'
  <2>1. /\ phase = "run" /\ HasWaiter(e) /\ RemoveFromEventList(e)
        /\ yieldPending => yieldPending'
        /\ yieldPending' \in BOOLEAN
        /\ UNCHANGED <<uxPriority, allocated, pxCurrentTCB, xSchedulerRunning,
                       pc, phase, uxSchedulerSuspended>>
    BY <1>5 DEF InterruptSignals, InterruptsEnabled
  <2>. QED BY <2>1, SignalStore
<1>6. ASSUME NEW e \in Event, InterruptSignalsLocked(e)
      PROVE  StoreInv'
  BY <1>1, <1>6 DEF InterruptSignalsLocked, InterruptsEnabled, Typed
<1>7. CASE SwitchContext
  <2>1. PICK p \in 0 .. uxTopReadyPriority :
          /\ ReadyAt(p)
          /\ pxCurrentTCB' = OwnerOfHead(store, pxReadyTasksLists(p))
          /\ store' = NextEntry(store, pxReadyTasksLists(p))
    BY <1>7 DEF SwitchContext
  <2>2. p \in Priority
    BY PrioritiesAssumption DEF Typed, Priority
  <2>3. /\ pxReadyTasksLists(p) \in ReadyLists
        /\ pxReadyTasksLists(p) \in GenericLists
        /\ pxReadyTasksLists(p) \in Lists
    BY <2>2, ListNames, ListsDisjoint
  <2>4. /\ pxCurrentTCB' \in allocated
        /\ store.generic[pxCurrentTCB'] \in ReadyLists
    BY <2>1, <2>3, HeadGeneric DEF StoreInv, ReadyAt
  <2>5. /\ StoreOK(store')
        /\ store'.generic = store.generic
        /\ store'.event = store.event
    BY <2>1, <2>3, NextEntryOK
       DEF ReadyAt, Typed, StoreInv, StoreConsistent
  <2>6. /\ xSchedulerRunning /\ phase = "run"
        /\ UNCHANGED <<uxPriority, allocated, xSchedulerRunning, pc, phase>>
    BY <1>7 DEF SwitchContext, SwitchAllowed, InterruptsEnabled
  <2>7. Placement'
    BY <2>5, <2>6 DEF StoreInv, Placement, BetweenLists
  <2>8. EventPlacement'
    BY <2>5, <2>6 DEF StoreInv, EventPlacement, Blocked, Delayed
  <2>9. pxCurrentTCB' # NULL
    BY <2>4, NullAssumption DEF Typed, TCB
  <2>. QED BY <2>4, <2>5, <2>6, <2>7, <2>8, <2>9
           DEF StoreInv, StoreConsistent, CurrentAllocated, ReadyBeforeStart,
               LoopCaller, RunningReady
<1>8. CASE SwitchMissed
  BY <1>1, <1>8 DEF SwitchMissed, InterruptsEnabled
<1>. QED BY <1>2, <1>3, <1>4, <1>5, <1>6, <1>7, <1>8
         DEF TickISR, OtherISR, Switch

-----------------------------------------------------------------------------
LEMMA InitStore == Init => StoreInv
<1>. SUFFICES ASSUME Init PROVE StoreInv
  OBVIOUS
<1>1. StoreConsistent
  BY EmptyStoreOK DEF Init, StoreConsistent
<1>2. \A t \in TCB : store.generic[t] = NULL /\ store.event[t] = NULL
  BY DEF Init, EmptyStore
<1>. QED BY <1>1, <1>2
         DEF Init, StoreInv, Placement, EventPlacement, CurrentAllocated,
             ReadyBeforeStart, LoopCaller, RunningReady

LEMMA StutterStore == StoreInv /\ UNCHANGED vars => StoreInv'
<1>. SUFFICES ASSUME StoreInv, UNCHANGED vars PROVE StoreInv'
  OBVIOUS
<1>1. UNCHANGED <<store, uxPriority, allocated, pxCurrentTCB,
                  xSchedulerRunning, pc, phase, yieldPending,
                  uxSchedulerSuspended>>
  BY DEF vars, listVars, taskVars, runVars, loopVars, suspendVars
<1>2. LoopCaller' /\ (MustBeReady(pxCurrentTCB)' => MustBeReady(pxCurrentTCB))
  BY <1>1 DEF StoreInv, LoopCaller, MustBeReady
<1>. QED BY <1>1, <1>2, UnchangedStore DEF BetweenLists

LEMMA StoreStep == Typed /\ LockInv /\ StoreInv /\ [Next]_vars => StoreInv'
  BY BootStore, CallStepStore, CallStore, IdleStore, MaskedStore,
     InterruptStore, StutterStore DEF Next

LEMMA StoreInvariance == Spec => []StoreInv
<1>1. Init => StoreInv
  BY InitStore
<1>2. Typed /\ LockInv /\ StoreInv /\ [Next]_vars => StoreInv'
  BY StoreStep
<1>. QED BY <1>1, <1>2, Invariance, PTL DEF Spec

-----------------------------------------------------------------------------
(* Whatever the interleaving of tasks, interrupts and the masked loops, every
   item is in the list its pvContainer names and in no other, and vListRemove
   is never given an item that is in no list. *)
THEOREM ListsConsistent == Spec => []StoreConsistent
<1>1. StoreInv => StoreConsistent
  BY DEF StoreInv
<1>. QED BY <1>1, StoreInvariance, PTL

(* Every task whose TCB is allocated is in the one scheduler list its state
   calls for, and in a ready list only in that of its priority; no list holds
   a task whose TCB was freed. *)
THEOREM TasksPlaced == Spec => []Placement
<1>1. StoreInv => Placement
  BY DEF StoreInv
<1>. QED BY <1>1, StoreInvariance, PTL

(* No ready, running or deleted task is left behind in an event list, whoever
   woke, suspended or deleted it. *)
THEOREM WaitersBlocked == Spec => []EventPlacement
<1>1. StoreInv => EventPlacement
  BY DEF StoreInv
<1>. QED BY <1>1, StoreInvariance, PTL

-----------------------------------------------------------------------------
(* Dispatch: which task runs, and what is owed to those that do not. *)

(* The tasks whose generic item is in list l. *)
InList(l) == {t \in TCB : store.generic[t] = l}

(* What interrupts left for xTaskResumeAll waits for it only while the
   scheduler is suspended, or while xTaskResumeAll is at work on it. *)
HeldBack ==
  /\ \A t \in TCB : store.event[t] = xPendingReadyList =>
        uxSchedulerSuspended > 0 \/ phase = "drain"
  /\ uxMissedTicks > 0 \/ xMissedYield =>
        uxSchedulerSuspended > 0 \/ phase \in {"drain", "replay", "replayWake"}
  /\ yieldRequired => phase \in {"drain", "replay", "replayWake"}
  /\ phase = "replayWake" => yieldRequired

(* uxTopReadyPriority bounds the priorities that are ready. *)
Cached ==
  \A t \in TCB, p \in Priority :
    store.generic[t] = pxReadyTasksLists(p) => p <= uxTopReadyPriority

(* The idle task never blocks and never calls the API: once it is created it
   is always in its ready list. *)
IdlePoints == {"app", "reap", "idleYield", "reapRead", "reapEmpty", "reapFull"}

IdleReady ==
  /\ pc[Idle] \in IdlePoints
  /\ IF xSchedulerRunning
     THEN Idle \in allocated /\ store.generic[Idle] \in ReadyLists
     ELSE Idle \notin allocated

(* The counts are those of the sets of tasks they stand for, and the task the
   idle task has seen on the termination list is not taken by another. *)
Counted ==
  /\ IsFiniteSet(allocated)
  /\ IsFiniteSet(InList(xTasksWaitingTermination))
  /\ uxTasksDeleted = Cardinality(InList(xTasksWaitingTermination))
  /\ uxCurrentNumberOfTasks = Cardinality(allocated)
  /\ pc[Idle] \in {"reap", "reapFull"} =>
        InList(xTasksWaitingTermination) # {}

(* The current task is ready, no ready task has a higher priority, and, where
   exact is TRUE, the search of the next switch would not start above it.  (It
   may where tasks were suspended before the start, in Lifecycle.) *)
HighestRuns(exact) ==
  /\ store.generic[pxCurrentTCB] = pxReadyTasksLists(uxPriority[pxCurrentTCB])
  /\ \A t \in TCB, p \in Priority :
        store.generic[t] = pxReadyTasksLists(p) => p <= uxPriority[pxCurrentTCB]
  /\ exact => uxTopReadyPriority <= uxPriority[pxCurrentTCB]

(* Where the current task is on its way to the yield that ends its call. *)
YieldAhead == {"yield", "insert", "placeInsert", "unlock", "resume"}

(* A switch is requested, or somebody remembers to request it. *)
SwitchNoted ==
  \/ yieldPending \/ xMissedYield \/ yieldRequired
  \/ phase = "tickWake"
  \/ pc[pxCurrentTCB] \in YieldAhead

(* The current task is the right one, or the switch away from it is noted. *)
SwitchOwed(exact) ==
  pxCurrentTCB = NULL \/ HighestRuns(exact) \/ SwitchNoted

(* The first task finds uxTopReadyPriority at its initial value. *)
FirstTop(exact) ==
  exact /\ pxCurrentTCB = NULL => uxTopReadyPriority = 0

DispatchInvIf(exact) ==
  /\ HeldBack /\ Cached /\ IdleReady /\ Counted
  /\ FirstTop(exact) /\ SwitchOwed(exact)

DispatchInv == DispatchInvIf(TRUE)

-----------------------------------------------------------------------------
(* Rings and the sets of tasks they hold. *)

LEMMA RingMembers ==
  ASSUME NEW L \in Stores, StoreOK(L)
  PROVE  /\ \A l \in GenericLists :
               IsEmpty(L, l) <=> \A t \in TCB : L.generic[t] # l
         /\ \A l \in EventLists :
               IsEmpty(L, l) <=> \A t \in TCB : L.event[t] # l
<1>1. ASSUME NEW l \in Lists
      PROVE  IsEmpty(L, l) <=> \A t \in TCB : ~Contains(L.ring[l], t)
  <2>1. CASE IsEmpty(L, l)
    BY <2>1 DEF IsEmpty, Contains
  <2>2. CASE ~IsEmpty(L, l)
    BY <2>2, OwnerOfHeadIsTask
  <2>. QED BY <2>1, <2>2
<1>. QED BY <1>1, ListsDisjoint DEF StoreOK

LEMMA RingLength ==
  ASSUME NEW L \in Stores, StoreOK(L), NEW l \in GenericLists
  PROVE  /\ IsFiniteSet({t \in TCB : L.generic[t] = l})
         /\ Len(L.ring[l]) = Cardinality({t \in TCB : L.generic[t] = l})
<1> DEFINE M == {t \in TCB : L.generic[t] = l}
           s == L.ring[l]
<1>1. /\ s \in Seq(TCB)
      /\ IsInjective(s)
      /\ \A t \in TCB : Contains(s, t) <=> t \in M
  BY ListsDisjoint DEF Stores, StoreOK
<1>2. /\ Len(s) \in Nat /\ DOMAIN s = 1 .. Len(s)
      /\ \A i \in 1 .. Len(s) : s[i] \in TCB
      /\ s = [i \in 1 .. Len(s) |-> s[i]]
  BY <1>1, ElementOfSeq, LenProperties
<1>3. M \subseteq TCB
  OBVIOUS
<1>. HIDE DEF M, s
<1>4. \A i \in 1 .. Len(s) : s[i] \in M
  BY <1>1, <1>2 DEF Contains
<1>5. \A t \in M : \E i \in 1 .. Len(s) : s[i] = t
  BY <1>1, <1>3 DEF Contains
<1>6. s \in [1 .. Len(s) -> M]
  BY <1>2, <1>4
<1>7. s \in Bijection(1 .. Len(s), M)
  BY <1>1, <1>2, <1>5, <1>6 DEF Bijection, Injection, Surjection, IsInjective
<1>8. /\ IsFiniteSet(1 .. Len(s))
      /\ Cardinality(1 .. Len(s)) = Len(s)
  <2>1. PICK n : n = Len(s)
    OBVIOUS
  <2>2. 1 \in Int /\ n \in Int /\ n >= 0
    BY <1>2, <2>1
  <2>3. IsFiniteSet(1 .. n)
    BY ONLY <2>2, FS_Interval
  <2>4. Cardinality(1 .. n) = IF 1 > n THEN 0 ELSE n - 1 + 1
    BY ONLY <2>2, FS_Interval
  <2>5. Cardinality(1 .. n) = n
    BY ONLY <2>2, <2>4
  <2>. QED BY <2>1, <2>3, <2>5
<1>. QED BY <1>7, <1>8, FS_Bijection DEF ExistsBijection, M, s

LEMMA ReadyMembers ==
  ASSUME Typed, StoreConsistent
  PROVE  \A p \in Priority :
           ReadyAt(p) <=> \E t \in TCB : store.generic[t] = pxReadyTasksLists(p)
  BY RingMembers, ListNames
     DEF ReadyAt, Typed, StoreConsistent

LEMMA LargerBounds ==
  \A m, n \in Int : m <= Larger(m, n) /\ n <= Larger(m, n)
  BY DEF Larger

-----------------------------------------------------------------------------
(* What a step does to the scheduler lists. *)

(* The generic item of task t goes to list l, or to none; no other moves. *)
Relinked(t, l) ==
  /\ t \in TCB
  /\ \A u \in TCB :
        store'.generic[u] = IF u = t THEN l ELSE store.generic[u]

TasksKept == UNCHANGED <<allocated, uxCurrentNumberOfTasks, uxTasksDeleted>>

Created(t) ==
  /\ t \notin allocated
  /\ Relinked(t, pxReadyTasksLists(uxPriority'[t]))
  /\ \A u \in TCB : u # t => uxPriority'[u] = uxPriority[u]
  /\ uxTopReadyPriority' = Larger(uxTopReadyPriority, uxPriority'[t])
  /\ allocated' = allocated \cup {t}
  /\ uxCurrentNumberOfTasks' = uxCurrentNumberOfTasks + 1
  /\ UNCHANGED uxTasksDeleted

Readied(t) ==
  /\ Blocked(t)
  /\ Relinked(t, pxReadyTasksLists(uxPriority[t]))
  /\ uxTopReadyPriority' = Larger(uxTopReadyPriority, uxPriority[t])
  /\ TasksKept
  /\ UNCHANGED uxPriority

Reprioritised(t) ==
  /\ t \in Task
  /\ store.generic[t] = pxReadyTasksLists(uxPriority[t])
  /\ Relinked(t, pxReadyTasksLists(uxPriority'[t]))
  /\ \A u \in TCB : u # t => uxPriority'[u] = uxPriority[u]
  /\ uxTopReadyPriority' = Larger(uxTopReadyPriority, uxPriority'[t])
  /\ TasksKept

(* A task that blocks, or is on its way to block. *)
Left(t, l) ==
  /\ t \in Task
  /\ store.generic[t] # xTasksWaitingTermination
  /\ l \in DelayLists \cup {xSuspendedTaskList, NULL}
  /\ Relinked(t, l)
  /\ TasksKept
  /\ UNCHANGED <<uxPriority, uxTopReadyPriority>>

Terminated(t) ==
  /\ t \in Task
  /\ store.generic[t] # xTasksWaitingTermination
  /\ Relinked(t, xTasksWaitingTermination)
  /\ uxTasksDeleted' = uxTasksDeleted + 1
  /\ UNCHANGED <<allocated, uxCurrentNumberOfTasks, uxPriority,
                 uxTopReadyPriority>>

Reaped(t) ==
  /\ t \in allocated
  /\ store.generic[t] = xTasksWaitingTermination
  /\ Relinked(t, NULL)
  /\ allocated' = allocated \ {t}
  /\ uxCurrentNumberOfTasks' = uxCurrentNumberOfTasks - 1
  /\ uxTasksDeleted' = uxTasksDeleted - 1
  /\ pc'[Idle] = "idleYield"
  /\ UNCHANGED <<uxPriority, uxTopReadyPriority>>

(* The context switch notes the highest ready priority. *)
Searched ==
  /\ store'.generic = store.generic
  /\ \A t \in TCB, p \in Priority :
        store.generic[t] = pxReadyTasksLists(p) => p <= uxTopReadyPriority'
  /\ TasksKept
  /\ UNCHANGED uxPriority

(* No task moves; the priority of one that is not ready may change. *)
Stayed ==
  /\ store'.generic = store.generic
  /\ TasksKept
  /\ UNCHANGED uxTopReadyPriority

Effect ==
  \/ \E t \in TCB : \/ Created(t) \/ Readied(t) \/ Reprioritised(t)
                    \/ \E l \in GenericLists \cup {NULL} : Left(t, l)
                    \/ Terminated(t) \/ Reaped(t)
  \/ Searched
  \/ Stayed

-----------------------------------------------------------------------------
(* The operations, one by one. *)

LEMMA CreateEffect ==
  ASSUME Typed, LockInv, StoreConsistent, Placement,
         FirstFound, NEW t \in TCB, NEW p \in RequestedPriority,
         Create(t, p)
  PROVE  Created(t) /\ uxPriority'[t] = Capped(p) /\ store'.event = store.event
<1>1. /\ store'.generic = [store.generic EXCEPT
                             ![t] = pxReadyTasksLists(uxPriority'[t])]
      /\ store'.event = store.event
      /\ \A u \in TCB : u # t => uxPriority'[u] = uxPriority[u]
      /\ t \notin allocated /\ allocated' = allocated \cup {t}
  BY CreateStore
<1>2. Relinked(t, pxReadyTasksLists(uxPriority'[t]))
  BY <1>1 DEF Relinked, Typed, Stores
<1>3. uxPriority'[t] = Capped(p)
  BY DEF Create, Typed
<1>. QED BY <1>1, <1>2, <1>3 DEF Created, Create, AddTaskToReadyQueue

(* xTaskRemoveFromEventList, as its three callers use it. *)
LEMMA SignalEffect ==
  ASSUME Typed, LockInv, StoreInv, phase \in {"run", "give"}, NEW e \in Event,
         HasWaiter(e), RemoveFromEventList(e), UNCHANGED taskVars
  PROVE  LET t == OwnerOfHead(store, EventList(e))
         IN  /\ t \in TCB
             /\ IF uxSchedulerSuspended = 0 THEN Readied(t) ELSE Stayed
             /\ \A u \in TCB : store'.event[u] = xPendingReadyList =>
                   \/ store.event[u] = xPendingReadyList
                   \/ uxSchedulerSuspended > 0
<1>. USE DEF taskVars
<1>1. PICK t \in allocated :
           /\ t = OwnerOfHead(store, EventList(e))
           /\ store.event[t] # NULL
           /\ IF uxSchedulerSuspended = 0
              THEN /\ store'.generic = [store.generic EXCEPT
                           ![t] = pxReadyTasksLists(uxPriority[t])]
                   /\ store'.event = [store.event EXCEPT ![t] = NULL]
              ELSE /\ store'.generic = store.generic
                   /\ store'.event = [store.event EXCEPT
                                        ![t] = xPendingReadyList]
  BY EventRemovalStore
<1>2. t \in TCB /\ xPendingReadyList # NULL
  BY ListNames, ListsDisjoint DEF Typed
<1>3. CASE uxSchedulerSuspended = 0
  <2>1. Blocked(t)
    BY <1>1, <1>2, <1>3 DEF StoreInv, EventPlacement, LockInv, WindowsAlone,
                            TickOutsideWindows, Windows
  <2>2. /\ Relinked(t, pxReadyTasksLists(uxPriority[t]))
        /\ \A u \in TCB : store'.event[u] =
                            IF u = t THEN NULL ELSE store.event[u]
    BY <1>1, <1>2, <1>3 DEF Relinked, Typed, Stores
  <2>3. uxTopReadyPriority' = Larger(uxTopReadyPriority, uxPriority[t])
    BY <1>1, <1>3
       DEF RemoveFromEventList, ListsAccessible, AddTaskToReadyQueue
  <2>4. Readied(t)
    BY <2>1, <2>2, <2>3 DEF Readied, TasksKept
  <2>. QED BY <1>1, <1>2, <1>3, <2>2, <2>4
<1>4. CASE uxSchedulerSuspended # 0
  <2>1. Stayed /\ uxSchedulerSuspended > 0
    BY <1>1, <1>4 DEF RemoveFromEventList, ListsAccessible, Stayed, TasksKept,
                      Typed
  <2>. QED BY <1>1, <1>2, <1>4, <2>1
<1>. QED BY <1>3, <1>4

(* vTaskResume and, with the lists accessible, xTaskResumeFromISR. *)
LEMMA ResumeEffect ==
  ASSUME Typed, StoreConsistent, NEW t \in allocated, IsTaskSuspended(t),
         AddTaskToReadyQueue(RemoveGeneric(store, t), t, uxPriority[t]),
         UNCHANGED taskVars
  PROVE  t \in TCB /\ Readied(t) /\ store'.event = store.event
<1>. USE DEF taskVars
<1>1. t \in TCB /\ pxReadyTasksLists(uxPriority[t]) \in GenericLists
  BY ListNames DEF Typed
<1>2. store.generic[t] # NULL /\ Blocked(t)
  BY ListNames, ListsDisjoint DEF IsTaskSuspended, Blocked
<1>3. /\ store'.generic = [store.generic EXCEPT
                              ![t] = pxReadyTasksLists(uxPriority[t])]
      /\ store'.event = store.event
  BY <1>1, <1>2, MoveGenericOK
     DEF AddTaskToReadyQueue, Typed, StoreConsistent
<1>4. Relinked(t, pxReadyTasksLists(uxPriority[t]))
  BY <1>1, <1>3 DEF Relinked, Typed, Stores
<1>. QED BY <1>1, <1>2, <1>3, <1>4
         DEF Readied, TasksKept, AddTaskToReadyQueue

(* vTaskSuspend and vTaskDelete. *)
LEMMA MoveEffect ==
  ASSUME Typed, StoreConsistent, Placement, NEW t \in Live, ~BetweenLists(t),
         NEW l \in GenericLists,
         store' = InsertEndGeneric(
                    RemoveEventIfLinked(RemoveGeneric(store, t), t), l, t)
  PROVE  /\ t \in Task /\ store.generic[t] # xTasksWaitingTermination
         /\ Relinked(t, l)
         /\ \A u \in TCB : store'.event[u] # NULL =>
               store'.event[u] = store.event[u]
<1>1. /\ t \in TCB /\ t \in allocated /\ t \in Task
      /\ store.generic[t] # xTasksWaitingTermination
  BY DEF Live, Typed, TCB
<1>2. store.generic[t] # NULL
  BY <1>1, InOneList
<1>3. /\ store'.generic = [store.generic EXCEPT ![t] = l]
      /\ store'.event = [store.event EXCEPT ![t] = NULL]
  <2>1. store \in Stores /\ StoreOK(store)
    BY DEF Typed, StoreConsistent
  <2>. QED BY <1>1, <1>2, <2>1, MoveTaskOK
<1>. QED BY <1>1, <1>3 DEF Relinked, Typed, Stores

-----------------------------------------------------------------------------
(* What follows from the effect of a step, whichever step it was. *)

LEMMA EffectCached ==
  ASSUME Typed, Typed', Cached, Effect
  PROVE  Cached'
<1>1. ASSUME NEW t, NEW q \in Priority, Relinked(t, pxReadyTasksLists(q)),
             uxTopReadyPriority' = Larger(uxTopReadyPriority, q)
      PROVE  Cached'
  <2>1. uxTopReadyPriority \in Int /\ q \in Int
    BY DEF Typed, Priority
  <2>2. uxTopReadyPriority <= uxTopReadyPriority' /\ q <= uxTopReadyPriority'
    BY <1>1, <2>1, LargerBounds
  <2>3. ASSUME NEW u \in TCB, NEW p \in Priority,
               store'.generic[u] = pxReadyTasksLists(p)
        PROVE  p <= uxTopReadyPriority'
    <3>1. CASE u = t
      BY <1>1, <2>2, <2>3, <3>1, ListNames DEF Relinked
    <3>2. CASE u # t
      <4>1. p <= uxTopReadyPriority
        BY <1>1, <2>3, <3>2 DEF Relinked, Cached
      <4>. QED BY <2>2, <4>1 DEF Typed, Priority
    <3>. QED BY <3>1, <3>2
  <2>. QED BY <2>3 DEF Cached
<1>2. ASSUME NEW t, NEW l, Relinked(t, l), l \notin ReadyLists,
             UNCHANGED uxTopReadyPriority
      PROVE  Cached'
  BY <1>2, ListNames DEF Relinked, Cached
<1>3. ASSUME NEW t \in TCB, Created(t) \/ Reprioritised(t)
      PROVE  Cached'
  BY <1>1, <1>3 DEF Created, Reprioritised, Typed
<1>4. ASSUME NEW t \in TCB, Readied(t)
      PROVE  Cached'
  BY <1>1, <1>4 DEF Readied, Typed
<1>5. ASSUME NEW t \in TCB, NEW l \in GenericLists \cup {NULL}, Left(t, l)
      PROVE  Cached'
  BY <1>2, <1>5, ListNames, ListsDisjoint DEF Left
<1>6. ASSUME NEW t \in TCB, Terminated(t) \/ Reaped(t)
      PROVE  Cached'
  BY <1>2, <1>6, ListNames, ListsDisjoint DEF Terminated, Reaped
<1>7. CASE Searched
  BY <1>7 DEF Searched, Cached
<1>8. CASE Stayed
  BY <1>8 DEF Stayed, Cached
<1>. QED BY <1>3, <1>4, <1>5, <1>6, <1>7, <1>8 DEF Effect

(* What Counted says but for the idle task's place. *)
CountsRight ==
  /\ IsFiniteSet(allocated)
  /\ IsFiniteSet(InList(xTasksWaitingTermination))
  /\ uxTasksDeleted = Cardinality(InList(xTasksWaitingTermination))
  /\ uxCurrentNumberOfTasks = Cardinality(allocated)

LEMMA EffectCounted ==
  ASSUME Typed, Typed', Placement, CountsRight, Effect
  PROVE  /\ CountsRight'
         /\ \/ InList(xTasksWaitingTermination)
                 \subseteq InList(xTasksWaitingTermination)'
            \/ pc'[Idle] = "idleYield"
<1> DEFINE T == InList(xTasksWaitingTermination)
<1>1. \A t \in TCB : t \in T <=> store.generic[t] = xTasksWaitingTermination
  BY DEF InList
<1>2. ASSUME NEW t, NEW l, Relinked(t, l), l # xTasksWaitingTermination,
             store.generic[t] # xTasksWaitingTermination
      PROVE  T' = T
  BY <1>2 DEF InList, Relinked
<1>3. \A p \in Priority : pxReadyTasksLists(p) # xTasksWaitingTermination
  BY ListNames
<1>4. ASSUME T' = T, TasksKept
      PROVE  CountsRight'
  BY <1>4 DEF CountsRight, TasksKept
<1>5. ASSUME NEW t \in TCB, Created(t)
      PROVE  T' = T /\ CountsRight'
  <2>1. store.generic[t] # xTasksWaitingTermination
    BY <1>5, ListNames, ListsDisjoint DEF Created, Placement
  <2>2. T' = T
    BY <1>2, <1>3, <1>5, <2>1 DEF Created, Typed
  <2>3. /\ IsFiniteSet(allocated')
        /\ Cardinality(allocated') = Cardinality(allocated) + 1
    BY <1>5, FS_AddElement DEF Created, CountsRight
  <2>. QED BY <1>5, <2>2, <2>3 DEF Created, CountsRight
<1>6. ASSUME NEW t \in TCB, Readied(t)
      PROVE  T' = T /\ CountsRight'
  <2>1. store.generic[t] # xTasksWaitingTermination
    BY <1>6, ListNames DEF Readied, Blocked, Delayed
  <2>2. T' = T
    BY <1>2, <1>3, <1>6, <2>1 DEF Readied, Typed
  <2>. QED BY <1>4, <1>6, <2>2 DEF Readied
<1>7. ASSUME NEW t \in TCB, Reprioritised(t)
      PROVE  T' = T /\ CountsRight'
  <2>1. T' = T
    BY <1>2, <1>3, <1>7 DEF Reprioritised, Typed
  <2>. QED BY <1>4, <1>7, <2>1 DEF Reprioritised
<1>8. ASSUME NEW t \in TCB, NEW l \in GenericLists \cup {NULL}, Left(t, l)
      PROVE  T' = T /\ CountsRight'
  <2>1. T' = T
    BY <1>2, <1>8, ListNames, ListsDisjoint DEF Left
  <2>. QED BY <1>4, <1>8, <2>1 DEF Left
<1>9. ASSUME NEW t \in TCB, Terminated(t)
      PROVE  T \subseteq T' /\ CountsRight'
  <2>1. T' = T \cup {t} /\ t \notin T
    BY <1>9 DEF Terminated, Relinked, InList
  <2>. HIDE DEF T
  <2>2. IsFiniteSet(T) /\ uxTasksDeleted = Cardinality(T)
    BY DEF CountsRight, T
  <2>3. IsFiniteSet(T') /\ Cardinality(T') = Cardinality(T) + 1
    BY <2>1, <2>2, FS_AddElement
  <2>. QED BY <1>9, <2>1, <2>2, <2>3 DEF Terminated, CountsRight, T
<1>10. ASSUME NEW t \in TCB, Reaped(t)
       PROVE  pc'[Idle] = "idleYield" /\ CountsRight'
  <2>1. T' = T \ {t} /\ t \in T
    BY <1>10, ListNames, ListsDisjoint DEF Reaped, Relinked, InList
  <2>. HIDE DEF T
  <2>2. IsFiniteSet(T) /\ uxTasksDeleted = Cardinality(T)
    BY DEF CountsRight, T
  <2>3. IsFiniteSet(T') /\ Cardinality(T') = Cardinality(T) - 1
    BY <2>1, <2>2, FS_RemoveElement
  <2>4. /\ IsFiniteSet(allocated')
        /\ Cardinality(allocated') = Cardinality(allocated) - 1
    BY <1>10, FS_RemoveElement DEF Reaped, CountsRight
  <2>. QED BY <1>10, <2>2, <2>3, <2>4 DEF Reaped, CountsRight, T
<1>11. CASE Searched \/ Stayed
  <2>1. T' = T
    BY <1>11 DEF Searched, Stayed, InList
  <2>. QED BY <1>4, <1>11, <2>1 DEF Searched, Stayed
<1>. QED BY <1>5, <1>6, <1>7, <1>8, <1>9, <1>10, <1>11 DEF Effect

LEMMA EffectIdle ==
  ASSUME Typed, Typed', Effect, Idle \in allocated,
         store.generic[Idle] \in ReadyLists
  PROVE  Idle \in allocated' /\ store'.generic[Idle] \in ReadyLists
<1>1. /\ Idle \in TCB /\ Idle \notin Task
      /\ store.generic[Idle] # xTasksWaitingTermination
  BY IdleAssumption, ListNames DEF TCB
<1>2. ASSUME NEW t, t # Idle, NEW l, Relinked(t, l)
      PROVE  store'.generic[Idle] \in ReadyLists
  BY <1>1, <1>2 DEF Relinked
<1>3. ASSUME NEW t \in TCB, Created(t)
      PROVE  Idle \in allocated' /\ store'.generic[Idle] \in ReadyLists
  BY <1>2, <1>3 DEF Created
<1>4. ASSUME NEW t \in TCB, Readied(t)
      PROVE  Idle \in allocated' /\ store'.generic[Idle] \in ReadyLists
  <2>1. t # Idle
    BY <1>4, ListNames DEF Readied, Blocked, Delayed
  <2>. QED BY <1>2, <1>4, <2>1 DEF Readied, TasksKept
<1>5. ASSUME NEW t \in TCB, NEW l \in GenericLists \cup {NULL}, Left(t, l)
      PROVE  Idle \in allocated' /\ store'.generic[Idle] \in ReadyLists
  BY <1>1, <1>2, <1>5 DEF Left, TasksKept
<1>6. ASSUME NEW t \in TCB, Reprioritised(t) \/ Terminated(t) \/ Reaped(t)
      PROVE  Idle \in allocated' /\ store'.generic[Idle] \in ReadyLists
  BY <1>1, <1>2, <1>6 DEF Reprioritised, Terminated, Reaped, TasksKept
<1>7. CASE Searched \/ Stayed
  BY <1>7 DEF Searched, Stayed, TasksKept
<1>. QED BY <1>3, <1>4, <1>5, <1>6, <1>7 DEF Effect

-----------------------------------------------------------------------------
(* Every step has one of these effects; and a task comes into the pending list
   only while the scheduler is suspended. *)

Unheld ==
  \A u \in TCB : store'.event[u] = xPendingReadyList =>
     store.event[u] = xPendingReadyList \/ uxSchedulerSuspended' > 0

LEMMA BootEffect ==
  ASSUME Typed, LockInv, StoreInv, Boot
  PROVE  Effect /\ Unheld
<1>1. PICK t \in TCB, p \in RequestedPriority : Create(t, p)
  BY PrioritiesAssumption
     DEF Boot, CreateBeforeStart, StartScheduler, TCB, RequestedPriority
<1>2. Created(t) /\ store'.event = store.event
  BY <1>1, CreateEffect DEF StoreInv, CurrentAllocated, FirstFound
<1>. QED BY <1>2 DEF Effect, Unheld

(* A task that takes itself off its ready list. *)
LEMMA UnlinkEffect ==
  ASSUME Typed, LockInv, StoreInv, NEW t \in Task, Runs(t),
         pc[t] \in {"delay", "until", "placeGeneric"},
         store' = RemoveGeneric(store, t),
         UNCHANGED <<taskVars, uxTopReadyPriority>>
  PROVE  Left(t, NULL) /\ store'.event = store.event
<1>. USE DEF taskVars
<1>1. t \in TCB
  BY DEF TCB
<1>2. store.generic[t] \in ReadyLists
  BY <1>1, RunningTask
<1>3. /\ store.generic[t] # NULL
      /\ store.generic[t] # xTasksWaitingTermination
  BY <1>2, ListNames, ListsDisjoint
<1>4. /\ store'.generic = [store.generic EXCEPT ![t] = NULL]
      /\ store'.event = store.event
  BY <1>1, <1>3, RemoveGenericOK DEF Typed, StoreInv, StoreConsistent
<1>5. Relinked(t, NULL)
  BY <1>1, <1>4 DEF Relinked, Typed, Stores
<1>. QED BY <1>3, <1>4, <1>5 DEF Left, TasksKept

(* A task that puts itself into a list to block. *)
LEMMA BlockEffect ==
  ASSUME Typed, StoreInv, NEW t \in Task, store.generic[t] = NULL,
         NEW l \in DelayLists \cup {xSuspendedTaskList}, NEW value,
         \/ store' = InsertGeneric(store, l, value, t)
         \/ store' = InsertEndGeneric(store, l, t),
         UNCHANGED <<taskVars, uxTopReadyPriority>>
  PROVE  Left(t, l) /\ store'.event = store.event
<1>. USE DEF taskVars
<1>1. t \in TCB /\ l \in GenericLists
  BY ListNames DEF TCB
<1>2. /\ store'.generic = [store.generic EXCEPT ![t] = l]
      /\ store'.event = store.event
  BY <1>1, InsertGenericOK, InsertEndGenericOK
     DEF Typed, StoreInv, StoreConsistent
<1>3. Relinked(t, l)
  BY <1>1, <1>2 DEF Relinked, Typed, Stores
<1>4. NULL # xTasksWaitingTermination
  BY ListNames, ListsDisjoint
<1>. QED BY <1>2, <1>3, <1>4 DEF Left, TasksKept

LEMMA CallStepEffect ==
  ASSUME Typed, LockInv, StoreInv, IdleReady, NEW t \in TCB, CallStep(t)
  PROVE  Effect /\ Unheld
<1>. USE DEF tickVars, listVars, delayVars, suspendVars, loopVars, runVars
<1>0. pc[t] \notin IdlePoints => t \in Task
  BY DEF IdleReady, TCB
<1>1. CASE YieldWithinAPI(t) \/ ResumeAll(t)
  <2>1. UNCHANGED <<store, uxTopReadyPriority, taskVars>>
    BY <1>1 DEF YieldWithinAPI, RequestSwitch, ResumeAll
  <2>. QED BY <2>1 DEF Effect, Stayed, TasksKept, taskVars, Unheld
<1>2. ASSUME pc[t] \in {"delay", "until", "placeGeneric"}, Runs(t),
             store' = RemoveGeneric(store, t),
             UNCHANGED <<taskVars, uxTopReadyPriority>>
      PROVE  Effect /\ Unheld
  <2>1. t \in Task
    BY <1>0, <1>2 DEF IdlePoints
  <2>2. Left(t, NULL) /\ store'.event = store.event
    BY <1>2, <2>1, UnlinkEffect
  <2>. QED BY <2>2 DEF Effect, Unheld
<1>3. CASE DelayUnlink(t)
  BY <1>2, <1>3 DEF DelayUnlink, UnlinkToWakeAt, RunsAt
<1>4. CASE UntilDecide(t)
  <2>1. \/ store' = RemoveGeneric(store, t)
        \/ store' = store
    BY <1>4 DEF UntilDecide, UnlinkToWakeAt
  <2>2. CASE store' = RemoveGeneric(store, t)
    BY <1>2, <1>4, <2>2 DEF UntilDecide, RunsAt
  <2>3. CASE store' = store
    BY <1>4, <2>3 DEF UntilDecide, Effect, Stayed, TasksKept, taskVars, Unheld
  <2>. QED BY <2>1, <2>2, <2>3
<1>5. CASE PlaceUnlink(t)
  BY <1>2, <1>5 DEF PlaceUnlink, RunsAt
<1>6. ASSUME BetweenLists(t), Runs(t),
             NEW l \in DelayLists \cup {xSuspendedTaskList}, NEW value,
             \/ store' = InsertGeneric(store, l, value, t)
             \/ store' = InsertEndGeneric(store, l, t),
             UNCHANGED <<taskVars, uxTopReadyPriority>>
      PROVE  Effect /\ Unheld
  <2>1. t \in Task /\ store.generic[t] = NULL
    BY <1>0, <1>6, RunningTask
       DEF IdlePoints, BetweenLists, StoreInv, Placement
  <2>2. Left(t, l) /\ store'.event = store.event
    BY <1>6, <2>1, BlockEffect
  <2>3. l \in GenericLists
    BY ListNames
  <2>. QED BY <2>2, <2>3 DEF Effect, Unheld
<1>7. CASE DelayInsert(t)
  <2>1. DelayListFor(xItemValue[t]) \in DelayLists
    BY DEF DelayListFor, Typed
  <2>. QED BY <1>6, <1>7, <2>1 DEF DelayInsert, RunsAt, BetweenLists
<1>8. CASE PlaceInsert(t)
  <2>1. DelayListFor(xItemValue'[t]) \in DelayLists
    BY DEF DelayListFor, Typed
  <2>2. /\ BetweenLists(t) /\ Runs(t)
        /\ UNCHANGED <<taskVars, uxTopReadyPriority>>
        /\ \/ store' = InsertEndGeneric(store, xSuspendedTaskList, t)
           \/ store' = InsertGeneric(store, DelayListFor(xItemValue'[t]),
                                     xItemValue', t)
    BY <1>8 DEF PlaceInsert, RunsAt, BetweenLists
  <2>. QED BY <1>6, <2>1, <2>2
<1>9. CASE PlaceEventItem(t)
  <2>1. Runs(t) /\ pc[t] = "place"
    BY <1>9 DEF PlaceEventItem, RunsAt
  <2>2. store.event[t] = NULL
    <3>1. ~Blocked(t)
      BY <2>1, RunningTask, ListNames DEF Blocked, Delayed
    <3>. QED BY <2>1, <3>1 DEF StoreInv, EventPlacement
  <2>3. PICK e \in Event :
           store' = InsertEvent(store, EventList(e), EventItemValue, t)
    BY <1>9 DEF PlaceEventItem
  <2>4. /\ store'.event = [store.event EXCEPT ![t] = EventList(e)]
        /\ store'.generic = store.generic
    BY <2>2, <2>3, InsertEventOK, ListNames
       DEF Typed, StoreInv, StoreConsistent
  <2>5. \A u \in TCB : store'.event[u] =
                         IF u = t THEN EventList(e) ELSE store.event[u]
    BY <2>4 DEF Typed, Stores
  <2>. QED BY <1>9, <2>4, <2>5, ListNames
           DEF PlaceEventItem, Effect, Stayed, TasksKept, taskVars, Unheld
<1>10. CASE QueueUnlock(t)
  <2>1. /\ phase = "run" /\ UNCHANGED <<taskVars, uxSchedulerSuspended>>
    BY <1>10 DEF QueueUnlock, RunsAt, Runs, InterruptsEnabled
  <2>2. CASE store' = store /\ uxTopReadyPriority' = uxTopReadyPriority
    BY <2>1, <2>2 DEF Effect, Stayed, TasksKept, taskVars, Unheld
  <2>3. ASSUME NEW e \in Event, HasWaiter(e), RemoveFromEventList(e)
        PROVE  Effect /\ Unheld
    BY <2>1, <2>3, SignalEffect DEF Effect, Unheld
  <2>. QED BY <1>10, <2>2, <2>3 DEF QueueUnlock
<1>. QED BY <1>1, <1>3, <1>4, <1>5, <1>7, <1>8, <1>9, <1>10 DEF CallStep

(* vTaskPrioritySet. *)
LEMMA RepriorityEffect ==
  ASSUME Typed, StoreConsistent, NEW t \in Task, NEW new \in Priority,
         uxPriority' = [uxPriority EXCEPT ![t] = new],
         IF store.generic[t] = pxReadyTasksLists(uxPriority[t])
         THEN AddTaskToReadyQueue(RemoveGeneric(store, t), t, new)
         ELSE UNCHANGED listVars,
         TasksKept
  PROVE  /\ \/ Reprioritised(t)
            \/ Stayed /\ store.generic[t] # pxReadyTasksLists(uxPriority[t])
         /\ uxPriority'[t] = new
         /\ \A u \in TCB : u # t => uxPriority'[u] = uxPriority[u]
         /\ store'.event = store.event
         /\ StoreConsistent'
<1>1. t \in TCB /\ pxReadyTasksLists(new) \in GenericLists
  BY ListNames DEF TCB
<1>2. /\ uxPriority'[t] = new
      /\ \A u \in TCB : u # t => uxPriority'[u] = uxPriority[u]
  BY <1>1 DEF Typed
<1>3. CASE store.generic[t] = pxReadyTasksLists(uxPriority[t])
  <2>1. store.generic[t] # NULL
    BY <1>1, <1>3, ListNames, ListsDisjoint DEF Typed
  <2>2. AddTaskToReadyQueue(RemoveGeneric(store, t), t, new)
    BY <1>3
  <2>3. /\ store'.generic = [store.generic EXCEPT ![t] = pxReadyTasksLists(new)]
        /\ store'.event = store.event
        /\ StoreConsistent'
    BY <1>1, <2>1, <2>2, MoveGenericOK
       DEF AddTaskToReadyQueue, Typed, StoreConsistent
  <2>4. Relinked(t, pxReadyTasksLists(new))
    BY <1>1, <2>3 DEF Relinked, Typed, Stores
  <2>. QED BY <1>2, <1>3, <2>2, <2>3, <2>4
           DEF Reprioritised, AddTaskToReadyQueue
<1>4. CASE store.generic[t] # pxReadyTasksLists(uxPriority[t])
  BY <1>2, <1>4 DEF Stayed, listVars, StoreConsistent
<1>. QED BY <1>3, <1>4

LEMMA PrioritySetEffect ==
  ASSUME Typed, LockInv, StoreInv, NEW c \in Task, NEW t \in Task,
         NEW p \in RequestedPriority, PrioritySet(c, t, p)
  PROVE  /\ \/ Reprioritised(t)
            \/ Stayed /\ store.generic[t] # pxReadyTasksLists(uxPriority[t])
         /\ uxPriority'[t] = Capped(p)
         /\ \A u \in TCB : u # t => uxPriority'[u] = uxPriority[u]
         /\ store'.event = store.event
<1>1. PICK new \in Priority : new = Capped(p)
  BY CappedType DEF RequestedPriority
<1>2. /\ uxPriority' = [uxPriority EXCEPT ![t] = new]
      /\ IF store.generic[t] = pxReadyTasksLists(uxPriority[t])
         THEN AddTaskToReadyQueue(RemoveGeneric(store, t), t, new)
         ELSE UNCHANGED listVars
      /\ TasksKept
  BY <1>1 DEF PrioritySet, TasksKept
<1>. QED BY <1>1, <1>2, RepriorityEffect DEF StoreInv

LEMMA CallEffect ==
  ASSUME Typed, LockInv, StoreInv, NEW c \in Task, Call(c)
  PROVE  Effect /\ Unheld
<1>. USE DEF tickVars, listVars, delayVars, suspendVars, loopVars, runVars
<1>0. c \in TCB
  BY DEF TCB
<1>1. ASSUME NEW t \in Task, NEW p \in RequestedPriority, CreateTask(c, t, p)
      PROVE  Effect /\ Unheld
  <2>1. t \in TCB
    BY DEF TCB
  <2>2. Created(t) /\ store'.event = store.event
    BY <1>1, <2>1, CreateEffect
       DEF StoreInv, CurrentAllocated, FirstFound, CreateTask
  <2>. QED BY <2>1, <2>2 DEF Effect, Unheld
<1>2. ASSUME UNCHANGED <<store, uxTopReadyPriority, taskVars>>
      PROVE  Effect /\ Unheld
  BY <1>2 DEF Effect, Stayed, TasksKept, taskVars, Unheld
<1>3. CASE \/ AppSuspendAll(c) \/ TaskYield(c) \/ DelayZero(c)
           \/ DelaySuspend(c) \/ DelayUntilSuspend(c)
           \/ \E e \in Event : QueueSuspend(c, e)
  BY <1>2, <1>3 DEF AppSuspendAll, TaskYield, RequestSwitch, DelayZero,
                    DelaySuspend, DelayUntilSuspend, QueueSuspend, SuspendAll
<1>4. ASSUME NEW e \in Event, TaskSignals(c, e)
      PROVE  Effect /\ Unheld
  <2>1. /\ phase = "run" /\ HasWaiter(e) /\ RemoveFromEventList(e)
        /\ UNCHANGED <<taskVars, uxSchedulerSuspended>>
    BY <1>4 DEF TaskSignals, MayBlock, RunsApp, RunsAt, Runs,
                InterruptsEnabled
  <2>. QED BY <2>1, SignalEffect DEF Effect, Unheld
<1>5. ASSUME NEW t \in Live, Runs(c), pc[c] = "app"
      PROVE  ~BetweenLists(t)
  BY <1>0, <1>5, RunningTask DEF BetweenLists, Live, Typed
<1>6. ASSUME NEW t \in Task, SuspendTask(c, t)
      PROVE  Effect /\ Unheld
  <2>1. /\ Runs(c) /\ pc[c] = "app" /\ t \in Live
        /\ store' = InsertEndGeneric(
                      RemoveEventIfLinked(RemoveGeneric(store, t), t),
                      xSuspendedTaskList, t)
        /\ UNCHANGED <<taskVars, uxTopReadyPriority>>
    BY <1>6 DEF SuspendTask, RunsApp, RunsAt
  <2>2. xSuspendedTaskList \in GenericLists /\ xPendingReadyList # NULL
    BY ListNames, ListsDisjoint
  <2>3. /\ t \in Task /\ store.generic[t] # xTasksWaitingTermination
        /\ Relinked(t, xSuspendedTaskList)
        /\ \A u \in TCB : store'.event[u] # NULL =>
              store'.event[u] = store.event[u]
    BY <1>5, <2>1, <2>2, MoveEffect DEF StoreInv
  <2>4. Left(t, xSuspendedTaskList) /\ t \in TCB
    BY <2>1, <2>3 DEF Left, TasksKept, taskVars, TCB
  <2>. QED BY <2>2, <2>3, <2>4 DEF Effect, Unheld
<1>7. ASSUME NEW t \in Task, DeleteTask(c, t)
      PROVE  Effect /\ Unheld
  <2>1. /\ Runs(c) /\ pc[c] = "app" /\ t \in Live
        /\ store' = InsertEndGeneric(
                      RemoveEventIfLinked(RemoveGeneric(store, t), t),
                      xTasksWaitingTermination, t)
        /\ uxTasksDeleted' = uxTasksDeleted + 1
        /\ UNCHANGED <<allocated, uxCurrentNumberOfTasks, uxPriority,
                       uxTopReadyPriority>>
    BY <1>7 DEF DeleteTask, Terminate, RunsApp, RunsAt
  <2>2. xTasksWaitingTermination \in GenericLists /\ xPendingReadyList # NULL
    BY ListNames, ListsDisjoint
  <2>3. /\ t \in Task /\ store.generic[t] # xTasksWaitingTermination
        /\ Relinked(t, xTasksWaitingTermination)
        /\ \A u \in TCB : store'.event[u] # NULL =>
              store'.event[u] = store.event[u]
    BY <1>5, <2>1, <2>2, MoveEffect DEF StoreInv
  <2>4. Terminated(t) /\ t \in TCB
    BY <2>1, <2>3 DEF Terminated, TCB
  <2>. QED BY <2>2, <2>3, <2>4 DEF Effect, Unheld
<1>8. ASSUME NEW t \in Task, ResumeTask(c, t)
      PROVE  Effect /\ Unheld
  <2>1. t \in TCB /\ Readied(t) /\ store'.event = store.event
    BY <1>8, ResumeEffect DEF StoreInv, ResumeTask, Live
  <2>. QED BY <2>1 DEF Effect, Unheld
<1>9. ASSUME NEW t \in Task, NEW p \in RequestedPriority, PrioritySet(c, t, p)
      PROVE  Effect /\ Unheld
  <2>1. Reprioritised(t) \/ Stayed
    BY <1>9, PrioritySetEffect
  <2>2. store'.event = store.event /\ t \in TCB
    BY <1>9, PrioritySetEffect DEF TCB
  <2>. QED BY <2>1, <2>2 DEF Effect, Unheld
<1>. QED BY <1>1, <1>3, <1>4, <1>6, <1>7, <1>8, <1>9 DEF Call

LEMMA ReapEffect ==
  ASSUME Typed, LockInv, StoreInv, IdleReap
  PROVE  /\ Reaped(OwnerOfHead(store, xTasksWaitingTermination))
         /\ store'.event = store.event
<1> DEFINE t == OwnerOfHead(store, xTasksWaitingTermination)
<1>1. t \in allocated /\ store.generic[t] = xTasksWaitingTermination
  BY HeadGeneric, ListNames DEF StoreInv, IdleReap, Reap
<1>2. /\ store' = RemoveGeneric(store, t)
      /\ allocated' = allocated \ {t}
      /\ pc'[Idle] = "idleYield"
  BY DEF IdleReap, Reap, Goto, Typed, TCB
<1>. HIDE DEF t
<1>3. t \in TCB /\ store.generic[t] # NULL
  BY <1>1, ListNames, ListsDisjoint DEF Typed
<1>4. /\ store'.generic = [store.generic EXCEPT ![t] = NULL]
      /\ store'.event = store.event
  BY <1>2, <1>3, RemoveGenericOK DEF Typed, StoreInv, StoreConsistent
<1>5. Relinked(t, NULL)
  BY <1>3, <1>4 DEF Relinked, Typed, Stores
<1>6. Reaped(t)
  BY <1>1, <1>2, <1>5 DEF Reaped, IdleReap, Reap
<1>. QED BY <1>4, <1>6 DEF t

LEMMA IdleEffect ==
  ASSUME Typed, LockInv, StoreInv, IdleStep
  PROVE  Effect /\ Unheld
<1>1. CASE IdleSuspend \/ IdleReadList \/ IdleLoop
  BY <1>1 DEF IdleSuspend, SuspendAll, IdleReadList, IdleLoop, listVars,
              taskVars, Effect, Stayed, TasksKept, Unheld
<1>2. CASE IdleReap
  BY <1>2, ReapEffect DEF Effect, Unheld, Reaped, Relinked
<1>. QED BY <1>1, <1>2 DEF IdleStep

(* The task at the head of the pending list, or of the delay list, is
   readied. *)
LEMMA DrainEffect ==
  ASSUME Typed, LockInv, StoreInv, DrainPending
  PROVE  /\ Readied(OwnerOfHead(store, xPendingReadyList))
         /\ Unheld
         /\ \A u \in TCB : store'.event[u] \in {NULL, store.event[u]}
<1>. USE DEF taskVars
<1> DEFINE t == OwnerOfHead(store, xPendingReadyList)
<1>1. t \in allocated /\ store.event[t] = xPendingReadyList
  BY HeadEvent, ListNames DEF DrainPending, PendingDrained
<1>2. /\ t \in TCB /\ store.event[t] # NULL /\ xPendingReadyList # NULL
      /\ pxReadyTasksLists(uxPriority[t]) \in GenericLists
  BY <1>1, ListNames, ListsDisjoint DEF Typed
<1>3. AddTaskToReadyQueue(RemoveGeneric(RemoveEvent(store, t), t), t,
                          uxPriority[t])
  BY DEF DrainPending
<1>. HIDE DEF t
<1>4. pc[t] \notin Windows \/ pc[t] \in {"resume", "reapEmpty", "reapFull"}
  BY <1>2 DEF DrainPending, StoreInv, LoopCaller, LockInv, WindowsAlone,
              Windows
<1>5. Blocked(t) /\ ~BetweenLists(t)
  BY <1>2, <1>4 DEF StoreInv, EventPlacement, BetweenLists, Windows
<1>6. store.generic[t] # NULL
  BY <1>1, <1>5, InOneList DEF StoreInv
<1>7. /\ store'.generic = [store.generic EXCEPT
                              ![t] = pxReadyTasksLists(uxPriority[t])]
      /\ store'.event = [store.event EXCEPT ![t] = NULL]
  BY <1>2, <1>3, <1>6, ReadyFromEventOK
     DEF AddTaskToReadyQueue, Typed, StoreInv, StoreConsistent
<1>8. /\ Relinked(t, pxReadyTasksLists(uxPriority[t]))
      /\ \A u \in TCB : store'.event[u] = IF u = t THEN NULL ELSE store.event[u]
  BY <1>2, <1>7 DEF Relinked, Typed, Stores
<1>9. Readied(t)
  BY <1>3, <1>5, <1>8 DEF DrainPending, Readied, TasksKept, AddTaskToReadyQueue
<1>. QED BY <1>2, <1>8, <1>9 DEF Unheld, t

LEMMA WakeEffect ==
  ASSUME Typed, LockInv, StoreInv, WakeHead
  PROVE  /\ Readied(OwnerOfHead(store, pxDelayedTaskList))
         /\ Unheld
         /\ \A u \in TCB : store'.event[u] \in {NULL, store.event[u]}
<1>. USE DEF taskVars
<1> DEFINE t == OwnerOfHead(store, pxDelayedTaskList)
<1>1. t \in allocated /\ store.generic[t] = pxDelayedTaskList
  BY HeadGeneric, ListNames DEF StoreInv, WakeHead, HeadIsDue, Typed
<1>2. /\ t \in TCB /\ store.generic[t] # NULL /\ Blocked(t)
      /\ xPendingReadyList # NULL
      /\ pxReadyTasksLists(uxPriority[t]) \in GenericLists
  BY <1>1, ListNames, ListsDisjoint DEF Typed, Blocked, Delayed
<1>3. AddTaskToReadyQueue(RemoveEventIfLinked(RemoveGeneric(store, t), t), t,
                          uxPriority[t])
  BY DEF WakeHead
<1>. HIDE DEF t
<1>4. /\ store'.generic = [store.generic EXCEPT
                              ![t] = pxReadyTasksLists(uxPriority[t])]
      /\ store'.event = [store.event EXCEPT ![t] = NULL]
  <2>1. /\ store \in Stores /\ StoreOK(store)
        /\ store' = InsertEndGeneric(
                      RemoveEventIfLinked(RemoveGeneric(store, t), t),
                      pxReadyTasksLists(uxPriority[t]), t)
    BY <1>3 DEF AddTaskToReadyQueue, Typed, StoreInv, StoreConsistent
  <2>. QED BY <1>2, <2>1, MoveTaskOK
<1>5. /\ Relinked(t, pxReadyTasksLists(uxPriority[t]))
      /\ \A u \in TCB : store'.event[u] = IF u = t THEN NULL ELSE store.event[u]
  BY <1>2, <1>4 DEF Relinked, Typed, Stores
<1>6. Readied(t)
  BY <1>2, <1>3, <1>5 DEF WakeHead, Readied, TasksKept, AddTaskToReadyQueue
<1>. QED BY <1>2, <1>5, <1>6 DEF Unheld, t

LEMMA MaskedEffect ==
  ASSUME Typed, LockInv, StoreInv, MaskedStep
  PROVE  Effect /\ Unheld
<1>1. CASE DrainPending
  BY <1>1, DrainEffect DEF Effect, Readied, Relinked
<1>2. CASE WakeHead
  BY <1>2, WakeEffect DEF Effect, Readied, Relinked
<1>3. CASE \/ DrainDone \/ ReplayTick \/ ReplayTickDone \/ ResumeAllDone
           \/ TickInterruptDone
  BY <1>3 DEF DrainDone, ReplayTick, ReplayTickDone, ResumeAllDone,
              TickInterruptDone, listVars, taskVars, Effect, Stayed,
              TasksKept, Unheld
<1>. QED BY <1>1, <1>2, <1>3 DEF MaskedStep

(* vTaskSwitchContext finds the highest ready priority, and a task of it. *)
LEMMA SwitchEffect ==
  ASSUME Typed, StoreInv, Cached, SwitchContext
  PROVE  /\ Searched
         /\ store'.event = store.event
         /\ pxCurrentTCB' \in TCB
         /\ store.generic[pxCurrentTCB']
              = pxReadyTasksLists(uxTopReadyPriority')
         /\ uxPriority[pxCurrentTCB'] = uxTopReadyPriority'
<1>1. PICK p \in 0 .. uxTopReadyPriority :
         /\ ReadyAt(p)
         /\ \A q \in p + 1 .. uxTopReadyPriority : ~ReadyAt(q)
         /\ uxTopReadyPriority' = p
         /\ pxCurrentTCB' = OwnerOfHead(store, pxReadyTasksLists(p))
         /\ store' = NextEntry(store, pxReadyTasksLists(p))
  BY DEF SwitchContext
<1>2. /\ p \in Priority
      /\ pxReadyTasksLists(p) \in GenericLists
      /\ pxReadyTasksLists(p) \in ReadyLists
  BY ListNames, PrioritiesAssumption DEF Typed, Priority
<1>3. /\ pxCurrentTCB' \in allocated
      /\ store.generic[pxCurrentTCB'] = pxReadyTasksLists(p)
  BY <1>1, <1>2, HeadGeneric DEF StoreInv, ReadyAt
<1>4. store'.generic = store.generic /\ store'.event = store.event
  BY <1>1, <1>2, NextEntryOK, ListsDisjoint
     DEF ReadyAt, Typed, StoreInv, StoreConsistent
<1>5. ASSUME NEW t \in TCB, NEW q \in Priority,
             store.generic[t] = pxReadyTasksLists(q)
      PROVE  q <= p
  <2>1. q <= uxTopReadyPriority
    BY <1>5 DEF Cached
  <2>2. ReadyAt(q)
    BY <1>5, ReadyMembers DEF StoreInv
  <2>. QED BY <1>1, <1>2, <2>1, <2>2 DEF Typed, Priority
<1>6. uxPriority[pxCurrentTCB'] = p
  <2>1. /\ pxCurrentTCB' \in TCB /\ uxPriority[pxCurrentTCB'] \in Priority
        /\ pxReadyTasksLists(p) # NULL
    BY <1>2, <1>3, ListsDisjoint DEF Typed
  <2>. QED BY <1>2, <1>3, <2>1, ListNames DEF StoreInv, Placement
<1>. QED BY <1>1, <1>3, <1>4, <1>5, <1>6
         DEF Searched, TasksKept, SwitchContext, taskVars, Typed

(* xTaskResumeFromISR. *)
LEMMA ResumeFromISREffect ==
  ASSUME Typed, LockInv, StoreInv, NEW t \in Task, ResumeFromISR(t)
  PROVE  /\ IF uxSchedulerSuspended = 0 THEN Readied(t) ELSE Stayed
         /\ Unheld
<1>1. /\ t \in allocated /\ IsTaskSuspended(t) /\ t \in TCB
      /\ UNCHANGED <<taskVars, uxSchedulerSuspended>>
  BY DEF ResumeFromISR, Live, TCB, suspendVars
<1>2. CASE uxSchedulerSuspended = 0
  <2>1. AddTaskToReadyQueue(RemoveGeneric(store, t), t, uxPriority[t])
    BY <1>2 DEF ResumeFromISR, ListsAccessible
  <2>. QED BY <1>1, <1>2, <2>1, ResumeEffect DEF StoreInv, Unheld
<1>3. CASE uxSchedulerSuspended # 0
  <2>1. /\ store' = InsertEndEvent(store, xPendingReadyList, t)
        /\ UNCHANGED uxTopReadyPriority
    BY <1>3 DEF ResumeFromISR, ListsAccessible
  <2>2. store'.generic = store.generic
    BY <2>1, EventOnlyMoves DEF Typed
  <2>3. uxSchedulerSuspended' > 0
    BY <1>1, <1>3 DEF Typed
  <2>. QED BY <1>1, <1>3, <2>1, <2>2, <2>3
           DEF Stayed, TasksKept, taskVars, Unheld
<1>. QED BY <1>2, <1>3

LEMMA InterruptEffect ==
  ASSUME Typed, LockInv, StoreInv, Cached, TickISR \/ OtherISR \/ Switch
  PROVE  Effect /\ Unheld
<1>. USE DEF tickVars, listVars, delayVars, suspendVars, loopVars, runVars
<1>1. CASE \/ TickISR \/ SwitchMissed
           \/ \E e \in Event : InterruptSignalsLocked(e)
  BY <1>1 DEF TickISR, TickInterrupt, TickInterruptMissed, SwitchMissed,
              InterruptSignalsLocked, taskVars, Effect, Stayed, TasksKept,
              Unheld
<1>2. ASSUME NEW t \in Task, ResumeFromISR(t)
      PROVE  Effect /\ Unheld
  BY <1>2, ResumeFromISREffect DEF Effect, TCB
<1>3. ASSUME NEW e \in Event, InterruptSignals(e)
      PROVE  Effect /\ Unheld
  <2>1. /\ phase = "run" /\ HasWaiter(e) /\ RemoveFromEventList(e)
        /\ UNCHANGED <<taskVars, uxSchedulerSuspended>>
    BY <1>3 DEF InterruptSignals, InterruptsEnabled
  <2>. QED BY <2>1, SignalEffect DEF Effect, Unheld
<1>4. CASE SwitchContext
  BY <1>4, SwitchEffect DEF Effect, Unheld
<1>. QED BY <1>1, <1>2, <1>3, <1>4 DEF TickISR, OtherISR, Switch

LEMMA StepEffect ==
  ASSUME Typed, LockInv, StoreInv, IdleReady, Cached, Next
  PROVE  Effect /\ Unheld
  BY BootEffect, CallStepEffect, CallEffect, IdleEffect, MaskedEffect,
     InterruptEffect DEF Next

-----------------------------------------------------------------------------
(* The idle task and the counts *)

(* The idle task goes round its loop; it gets past the test of the termination
   list only when the list holds a task. *)
IdlePlace ==
  /\ pc'[Idle] \in IdlePoints
  /\ pc'[Idle] \in {"reap", "reapFull"} =>
        \/ pc[Idle] \in {"reap", "reapFull"}
        \/ InList(xTasksWaitingTermination) # {}

LEMMA IdlePlaceStep ==
  ASSUME Typed, LockInv, StoreInv, IdleReady, Next
  PROVE  IdlePlace
<1>. USE DEF tickVars, listVars, delayVars, taskVars, suspendVars, loopVars,
             runVars
<1>0. Idle \in TCB /\ Idle \notin Task /\ pc[Idle] \in IdlePoints
  BY IdleAssumption DEF TCB, IdleReady
<1>1. ASSUME pc'[Idle] = pc[Idle]
      PROVE  IdlePlace
  BY <1>0, <1>1 DEF IdlePlace
<1>2. ASSUME NEW t \in TCB, t # Idle, NEW point, Goto(t, point)
      PROVE  IdlePlace
  <2>1. pc'[Idle] = pc[Idle]
    BY <1>0, <1>2 DEF Goto, Typed
  <2>. QED BY <1>1, <2>1
<1>3. CASE Boot
  BY <1>1, <1>3 DEF Boot, CreateBeforeStart, StartScheduler
<1>4. ASSUME NEW t \in TCB, CallStep(t)
      PROVE  IdlePlace
  <2>1. CASE t = Idle
    <3>1. ResumeAll(t)
      BY <1>0, <1>4, <2>1
         DEF CallStep, YieldWithinAPI, DelayUnlink, UntilDecide, DelayInsert,
             PlaceEventItem, PlaceUnlink, PlaceInsert, QueueUnlock, RunsAt,
             IdlePoints
    <3>2. \/ pc' = pc
          \/ Goto(Idle, AfterResumeAll(pc[Idle], FALSE))
      BY <2>1, <3>1 DEF ResumeAll
    <3>3. AfterResumeAll(pc[Idle], FALSE) \in {"app", "idleYield", "reap"}
      BY <1>0 DEF AfterResumeAll, IdlePoints
    <3>4. AfterResumeAll(pc[Idle], FALSE) = "reap" => pc[Idle] = "reapFull"
      BY <1>0 DEF AfterResumeAll, IdlePoints
    <3>. QED BY <1>0, <1>1, <3>2, <3>3, <3>4
             DEF Goto, Typed, IdlePlace, IdlePoints
  <2>2. CASE t # Idle
    BY <1>1, <1>2, <1>4, <2>2
       DEF CallStep, YieldWithinAPI, RequestSwitch, DelayUnlink, UntilDecide,
           UnlinkToWakeAt, DelayInsert, PlaceEventItem, PlaceUnlink,
           PlaceInsert, QueueUnlock, ResumeAll
  <2>. QED BY <2>1, <2>2
<1>5. ASSUME NEW c \in Task, Call(c)
      PROVE  IdlePlace
  <2>1. c \in TCB /\ c # Idle
    BY <1>0 DEF TCB
  <2>2. ASSUME NEW t \in Task, NEW p \in RequestedPriority, CreateTask(c, t, p)
        PROVE  IdlePlace
    <3>1. pc'[Idle] = pc[Idle]
      BY <1>0, <2>1, <2>2 DEF CreateTask, Typed
    <3>. QED BY <1>1, <3>1
  <2>3. CASE \/ AppSuspendAll(c) \/ TaskYield(c) \/ DelayZero(c)
             \/ DelaySuspend(c) \/ DelayUntilSuspend(c)
             \/ \E e \in Event : QueueSuspend(c, e)
    BY <1>2, <2>1, <2>3 DEF AppSuspendAll, TaskYield, RequestSwitch,
         DelayZero, DelaySuspend, DelayUntilSuspend, QueueSuspend, SuspendAll
  <2>4. CASE \/ \E e \in Event : TaskSignals(c, e)
             \/ \E t \in Task : ResumeTask(c, t)
             \/ \E t \in Task, p \in RequestedPriority : PrioritySet(c, t, p)
    BY <1>1, <2>4 DEF TaskSignals, ResumeTask, PrioritySet
  <2>5. CASE \E t \in Task : SuspendTask(c, t) \/ DeleteTask(c, t)
    BY <1>2, <2>1, <2>5 DEF SuspendTask, DeleteTask
  <2>. QED BY <1>5, <2>2, <2>3, <2>4, <2>5 DEF Call
<1>6. CASE IdleStep
  <2>1. ASSUME NEW point \in {"app", "idleYield", "reapRead", "reapEmpty"},
               Goto(Idle, point)
        PROVE  IdlePlace
    BY <1>0, <2>1 DEF Goto, Typed, IdlePlace, IdlePoints
  <2>2. CASE IdleSuspend \/ IdleReap \/ IdleLoop
    BY <2>1, <2>2 DEF IdleSuspend, SuspendAll, IdleReap, Reap, IdleLoop
  <2>3. CASE IdleReadList
    <3>1. CASE IsEmpty(store, xTasksWaitingTermination)
      BY <2>1, <2>3, <3>1 DEF IdleReadList
    <3>2. CASE ~IsEmpty(store, xTasksWaitingTermination)
      <4>1. InList(xTasksWaitingTermination) # {}
        BY <3>2, RingMembers, ListNames
           DEF InList, Typed, StoreInv, StoreConsistent
      <4>. QED BY <1>0, <2>3, <3>2, <4>1
               DEF IdleReadList, Goto, Typed, IdlePlace, IdlePoints
    <3>. QED BY <3>1, <3>2
  <2>. QED BY <1>6, <2>2, <2>3 DEF IdleStep
<1>7. CASE MaskedStep
  <2>1. CASE ResumeAllDone
    <3> DEFINE point == AfterResumeAll(pc[pxCurrentTCB],
                                       yieldRequired \/ xMissedYield)
    <3>1. /\ pc[pxCurrentTCB] \in {"app", "resume", "reapEmpty", "reapFull"}
          /\ pxCurrentTCB \in TCB
          /\ Goto(pxCurrentTCB, point)
      BY <2>1 DEF ResumeAllDone, StoreInv, LoopCaller, LockInv,
                  QuietBeforeStart
    <3>2. pc[pxCurrentTCB] # "resume" =>
            /\ point \in {"app", "idleYield", "reap"}
            /\ point = "reap" => pc[pxCurrentTCB] = "reapFull"
      BY <3>1 DEF AfterResumeAll
    <3>. HIDE DEF point
    <3>. QED BY <1>0, <1>2, <3>1, <3>2
             DEF Goto, Typed, IdlePlace, IdlePoints
  <2>2. CASE \/ DrainPending \/ DrainDone \/ ReplayTick \/ ReplayTickDone
             \/ WakeHead \/ TickInterruptDone
    BY <1>1, <2>2 DEF DrainPending, DrainDone, ReplayTick, ReplayTickDone,
                      WakeHead, TickInterruptDone
  <2>. QED BY <1>7, <2>1, <2>2 DEF MaskedStep
<1>8. CASE TickISR \/ OtherISR \/ Switch
  BY <1>1, <1>8 DEF TickISR, TickInterrupt, TickInterruptMissed, OtherISR,
       ResumeFromISR, InterruptSignals, InterruptSignalsLocked, Switch,
       SwitchContext, SwitchMissed
<1>. QED BY <1>3, <1>4, <1>5, <1>6, <1>7, <1>8 DEF Next

(* Only vTaskStartScheduler sets xSchedulerRunning, and it creates the idle
   task. *)
LEMMA StartedByBoot ==
  ASSUME LockInv, Next
  PROVE  \/ Boot
         \/ xSchedulerRunning' = xSchedulerRunning /\ xSchedulerRunning
<1>. USE DEF runVars, RunsApp, RunsAt, Runs, InterruptsEnabled
<1>1. ASSUME NEW t \in TCB, CallStep(t)
      PROVE  xSchedulerRunning' = xSchedulerRunning /\ xSchedulerRunning
  BY <1>1 DEF CallStep, YieldWithinAPI, RequestSwitch, DelayUnlink,
       UntilDecide, DelayInsert, PlaceEventItem, PlaceUnlink, PlaceInsert,
       QueueUnlock, ResumeAll
<1>2. ASSUME NEW c \in Task, Call(c)
      PROVE  xSchedulerRunning' = xSchedulerRunning /\ xSchedulerRunning
  BY <1>2 DEF Call, CreateTask, AppSuspendAll, SuspendAll, TaskYield,
       RequestSwitch, DelayZero, MayBlock, DelaySuspend, DelayUntilSuspend,
       QueueSuspend, TaskSignals, SuspendTask, ResumeTask, DeleteTask,
       PrioritySet
<1>3. CASE IdleStep
  BY <1>3 DEF IdleStep, IdleSuspend, SuspendAll, IdleReadList, IdleReap, Reap,
       IdleLoop
<1>4. CASE MaskedStep
  BY <1>4 DEF MaskedStep, DrainPending, DrainDone, ReplayTick, ReplayTickDone,
       ResumeAllDone, WakeHead, TickInterruptDone, LockInv, QuietBeforeStart
<1>5. CASE TickISR \/ OtherISR \/ Switch
  BY <1>5 DEF TickISR, TickInterrupt, TickInterruptMissed, OtherISR,
       ResumeFromISR, InterruptSignals, InterruptSignalsLocked, Switch,
       SwitchContext, SwitchAllowed, SwitchMissed
<1>. QED BY <1>1, <1>2, <1>3, <1>4, <1>5 DEF Next

LEMMA IdleReadyStep ==
  ASSUME Typed, Typed', LockInv, StoreInv, IdleReady, Effect, IdlePlace, Next
  PROVE  IdleReady'
<1>1. CASE xSchedulerRunning' = xSchedulerRunning /\ xSchedulerRunning
  BY <1>1, EffectIdle DEF IdleReady, IdlePlace
<1>2. ASSUME NEW t \in Task, NEW p \in RequestedPriority,
             CreateBeforeStart(t, p)
      PROVE  IdleReady'
  BY <1>2, IdleAssumption DEF CreateBeforeStart, Create, IdleReady, IdlePlace
<1>3. CASE StartScheduler
  <2>1. Create(Idle, 0) /\ 0 \in RequestedPriority /\ Idle \in TCB
    BY <1>3, PrioritiesAssumption DEF StartScheduler, RequestedPriority, TCB
  <2>2. Created(Idle)
    BY <2>1, CreateEffect DEF StoreInv, CurrentAllocated, FirstFound
  <2>3. store'.generic[Idle] \in ReadyLists
    BY <2>1, <2>2, ListNames DEF Created, Relinked, Typed
  <2>. QED BY <1>3, <2>2, <2>3
           DEF StartScheduler, Created, IdleReady, IdlePlace
<1>. QED BY <1>1, <1>2, <1>3, StartedByBoot DEF Boot

LEMMA CountedStep ==
  ASSUME Typed, Typed', StoreInv, Counted, Effect, IdlePlace
  PROVE  Counted'
<1>1. CountsRight
  BY DEF Counted, CountsRight
<1>2. /\ CountsRight'
      /\ \/ InList(xTasksWaitingTermination)
              \subseteq InList(xTasksWaitingTermination)'
         \/ pc'[Idle] = "idleYield"
  BY <1>1, EffectCounted DEF StoreInv
<1>3. pc'[Idle] \in {"reap", "reapFull"} =>
         InList(xTasksWaitingTermination) # {}
  BY DEF Counted, IdlePlace
<1>. QED BY <1>2, <1>3 DEF Counted, CountsRight

-----------------------------------------------------------------------------
(* Nothing held back outlives the suspension. *)

LEMMA HeldBackKept ==
  ASSUME HeldBack, Unheld,
         UNCHANGED <<uxSchedulerSuspended, uxMissedTicks, xMissedYield, phase,
                     yieldRequired>>
  PROVE  HeldBack'
  BY DEF HeldBack, Unheld

(* A step that only suspends, or makes notes while the scheduler is
   suspended. *)
LEMMA HeldBackSuspended ==
  ASSUME Typed', HeldBack, Unheld, uxSchedulerSuspended' > 0,
         UNCHANGED <<phase, yieldRequired>>
  PROVE  HeldBack'
  BY DEF HeldBack

LEMMA HeldBackStep ==
  ASSUME Typed, Typed', LockInv, StoreInv, Counted, HeldBack, Unheld, Next
  PROVE  HeldBack'
<1>. USE DEF tickVars, listVars, delayVars, taskVars, suspendVars, loopVars,
             runVars
<1>1. CASE Boot
  BY <1>1, HeldBackKept DEF Boot, CreateBeforeStart, StartScheduler, Create
<1>2. ASSUME NEW t \in TCB, CallStep(t)
      PROVE  HeldBack'
  <2>1. CASE \/ YieldWithinAPI(t) \/ DelayUnlink(t) \/ UntilDecide(t)
             \/ DelayInsert(t) \/ PlaceEventItem(t) \/ PlaceUnlink(t)
             \/ PlaceInsert(t)
    BY <2>1, HeldBackKept
       DEF YieldWithinAPI, RequestSwitch, DelayUnlink, UntilDecide,
           DelayInsert, PlaceEventItem, PlaceUnlink, PlaceInsert
  <2>2. CASE QueueUnlock(t)
    <3>1. uxSchedulerSuspended' > 0
      BY <2>2 DEF QueueUnlock, RunsAt, Runs, InterruptsEnabled, LockInv,
                  WindowsAlone, Windows
    <3>. QED BY <2>2, <3>1, HeldBackSuspended DEF QueueUnlock
  <2>3. CASE ResumeAll(t)
    <3>1. /\ uxSchedulerSuspended > 0
          /\ uxSchedulerSuspended' = uxSchedulerSuspended - 1
          /\ xSchedulerRunning
          /\ UNCHANGED <<store, uxMissedTicks, xMissedYield, yieldRequired>>
      BY <2>3 DEF ResumeAll, Runs, InterruptsEnabled, LockInv, WindowsAlone,
                  Windows
    <3>2. uxCurrentNumberOfTasks > 0
      <4>1. allocated # {}
        BY <3>1, NullAssumption
           DEF LockInv, StoreInv, CurrentAllocated, TCB
      <4>2. Cardinality(allocated) \in Nat /\ Cardinality(allocated) # 0
        BY <4>1, FS_CardinalityType, FS_EmptySet DEF Counted
      <4>. QED BY <4>2 DEF Counted
    <3>3. CASE uxSchedulerSuspended = 1
      <4>1. phase' = "drain"
        BY <2>3, <3>2, <3>3 DEF ResumeAll
      <4>. QED BY <3>1, <4>1 DEF HeldBack
    <3>4. CASE uxSchedulerSuspended # 1
      <4>1. uxSchedulerSuspended' > 0 /\ phase' = phase
        BY <2>3, <3>1, <3>4 DEF ResumeAll, Typed
      <4>. QED BY <3>1, <4>1, HeldBackSuspended
    <3>. QED BY <3>3, <3>4
  <2>. QED BY <1>2, <2>1, <2>2, <2>3 DEF CallStep
<1>3. ASSUME NEW c \in Task, Call(c)
      PROVE  HeldBack'
  <2>1. UNCHANGED <<uxMissedTicks, xMissedYield, phase, yieldRequired>>
    BY <1>3 DEF Call, CreateTask, Create, AppSuspendAll, SuspendAll,
         TaskYield, RequestSwitch, DelayZero, DelaySuspend,
         DelayUntilSuspend, QueueSuspend, TaskSignals, SuspendTask,
         ResumeTask, DeleteTask, PrioritySet
  <2>2. \/ uxSchedulerSuspended' = uxSchedulerSuspended
        \/ uxSchedulerSuspended' = uxSchedulerSuspended + 1
    BY <1>3 DEF Call, CreateTask, Create, AppSuspendAll, SuspendAll,
         TaskYield, RequestSwitch, DelayZero, DelaySuspend,
         DelayUntilSuspend, QueueSuspend, TaskSignals, SuspendTask,
         ResumeTask, DeleteTask, PrioritySet
  <2>3. CASE uxSchedulerSuspended' = uxSchedulerSuspended
    BY <2>1, <2>3, HeldBackKept
  <2>4. CASE uxSchedulerSuspended' = uxSchedulerSuspended + 1
    BY <2>1, <2>4, HeldBackSuspended DEF Typed
  <2>. QED BY <2>2, <2>3, <2>4
<1>4. CASE IdleStep
  <2>1. CASE IdleSuspend
    BY <2>1, HeldBackSuspended DEF IdleSuspend, SuspendAll, Typed
  <2>2. CASE IdleReadList \/ IdleReap \/ IdleLoop
    BY <2>2, HeldBackKept DEF IdleReadList, IdleReap, Reap, IdleLoop
  <2>. QED BY <1>4, <2>1, <2>2 DEF IdleStep
<1>5. CASE MaskedStep
  <2>1. CASE DrainPending
    BY <2>1 DEF DrainPending, HeldBack, Unheld
  <2>2. CASE DrainDone
    <3>1. \A t \in TCB : store'.event[t] # xPendingReadyList
      BY <2>2, RingMembers, ListNames
         DEF DrainDone, PendingDrained, Typed, StoreInv, StoreConsistent
    <3>. QED BY <2>2, <3>1 DEF DrainDone, HeldBack
  <2>3. CASE ReplayTick
    BY <2>3 DEF ReplayTick, HeldBack
  <2>4. CASE WakeHead
    BY <2>4, HeldBackKept DEF WakeHead
  <2>5. CASE TickInterruptDone
    BY <2>5 DEF TickInterruptDone, HeldBack, LockInv, MaskedUnsuspended
  <2>6. CASE ReplayTickDone
    BY <2>6 DEF ReplayTickDone, HeldBack
  <2>7. CASE ResumeAllDone
    <3>1. \A t \in TCB : store'.event[t] # xPendingReadyList
      BY <2>7 DEF ResumeAllDone, HeldBack, LockInv, MaskedUnsuspended
    <3>2. /\ phase' = "run" /\ uxMissedTicks' = 0 /\ yieldRequired' = FALSE
          /\ ~xMissedYield'
      BY <2>7 DEF ResumeAllDone, TicksReplayed
    <3>. QED BY <3>1, <3>2 DEF HeldBack
  <2>. QED BY <1>5, <2>1, <2>2, <2>3, <2>4, <2>5, <2>6, <2>7 DEF MaskedStep
<1>6. CASE TickISR
  <2>1. CASE TickInterrupt
    BY <2>1 DEF TickInterrupt, InterruptsEnabled, HeldBack, Typed
  <2>2. CASE TickInterruptMissed
    BY <2>2, HeldBackSuspended DEF TickInterruptMissed
  <2>. QED BY <1>6, <2>1, <2>2 DEF TickISR
<1>7. CASE OtherISR
  BY <1>7, HeldBackKept
     DEF OtherISR, ResumeFromISR, InterruptSignals, InterruptSignalsLocked
<1>8. CASE Switch
  <2>1. CASE SwitchContext
    BY <2>1, HeldBackKept DEF SwitchContext
  <2>2. CASE SwitchMissed
    BY <2>2, HeldBackSuspended DEF SwitchMissed
  <2>. QED BY <1>8, <2>1, <2>2 DEF Switch
<1>. QED BY <1>1, <1>2, <1>3, <1>4, <1>5, <1>6, <1>7, <1>8 DEF Next

-----------------------------------------------------------------------------
(* The right task runs, or somebody remembers to request the switch. *)

LEMMA OwedKept ==
  ASSUME NEW exact \in BOOLEAN,
         SwitchOwed(exact), store'.generic = store.generic,
         UNCHANGED <<uxTopReadyPriority, uxPriority, pxCurrentTCB>>,
         SwitchNoted => SwitchNoted'
  PROVE  SwitchOwed(exact)'
  BY DEF SwitchOwed, HighestRuns

(* A task other than the current one goes to a list of no higher priority. *)
LEMMA HighestKept ==
  ASSUME NEW exact \in BOOLEAN,
         Typed, HighestRuns(exact), pxCurrentTCB \in TCB,
         NEW t, t # pxCurrentTCB,
         NEW l, Relinked(t, l),
         \A p \in Priority :
            l = pxReadyTasksLists(p) => p <= uxPriority[pxCurrentTCB],
         UNCHANGED pxCurrentTCB,
         uxPriority'[pxCurrentTCB] = uxPriority[pxCurrentTCB],
         exact => uxTopReadyPriority' <= uxPriority[pxCurrentTCB]
  PROVE  HighestRuns(exact)'
  BY DEF HighestRuns, Relinked

LEMMA HighestReadied ==
  ASSUME NEW exact \in BOOLEAN,
         Typed, HighestRuns(exact), pxCurrentTCB \in TCB,
         NEW t \in TCB, Readied(t),
         ~(uxPriority[t] >= uxPriority[pxCurrentTCB]), UNCHANGED pxCurrentTCB
  PROVE  HighestRuns(exact)'
<1>1. /\ uxPriority[t] \in Priority /\ uxPriority[pxCurrentTCB] \in Priority
      /\ uxPriority[t] <= uxPriority[pxCurrentTCB]
  BY DEF Typed, Priority
<1>2. t # pxCurrentTCB
  BY <1>1, ListNames DEF Readied, Blocked, Delayed, HighestRuns
<1>3. exact => uxTopReadyPriority' <= uxPriority[pxCurrentTCB]
  BY <1>1 DEF Readied, Larger, HighestRuns
<1>. QED BY <1>1, <1>2, <1>3, HighestKept, ListNames DEF Readied

LEMMA HighestLeft ==
  ASSUME NEW exact \in BOOLEAN,
         Typed, HighestRuns(exact), pxCurrentTCB \in TCB,
         NEW t, t # pxCurrentTCB,
         NEW l, Relinked(t, l), l \notin ReadyLists,
         UNCHANGED <<pxCurrentTCB, uxPriority, uxTopReadyPriority>>
  PROVE  HighestRuns(exact)'
<1>1. \A p \in Priority : l # pxReadyTasksLists(p)
  BY ListNames
<1>2. exact => uxTopReadyPriority' <= uxPriority[pxCurrentTCB]
  BY DEF HighestRuns
<1>. QED BY <1>1, <1>2, HighestKept

(* A created task. *)
LEMMA CreateOwed ==
  ASSUME NEW exact \in BOOLEAN,
         Typed, LockInv, StoreInv, FirstTop(exact), SwitchOwed(exact),
         NEW t \in TCB, NEW p \in RequestedPriority, Create(t, p),
         UNCHANGED yieldPending,
         xSchedulerRunning =>
            \/ pc'[pxCurrentTCB] = "yield"
            \/ /\ ~(uxPriority[pxCurrentTCB] < p)
               /\ pc'[pxCurrentTCB] = pc[pxCurrentTCB],
         ~xSchedulerRunning => pc' = pc
  PROVE  SwitchOwed(exact)'
<1>. USE DEF suspendVars, loopVars
<1>1. /\ Created(t) /\ uxPriority'[t] = Capped(p)
      /\ Capped(p) \in Priority
  BY CreateEffect, CappedType
     DEF StoreInv, CurrentAllocated, FirstFound, RequestedPriority
<1>2. /\ p \in Int /\ Capped(p) <= p
      /\ \A q \in Priority : q <= p => q <= Capped(p)
  BY PrioritiesAssumption DEF RequestedPriority, Capped, Priority
<1>3. UNCHANGED <<xMissedYield, yieldRequired, phase>>
  BY DEF Create
<1>4. /\ uxTopReadyPriority \in Int /\ uxPriority'[t] \in Int
      /\ uxTopReadyPriority' = Larger(uxTopReadyPriority, Capped(p))
  BY <1>1 DEF Typed, Created, Priority
<1>5. CASE pxCurrentTCB = NULL
  <2>1. allocated = {} /\ pxCurrentTCB' = t
    BY <1>5 DEF StoreInv, CurrentAllocated, Create
  <2>2. \A u \in TCB : store.generic[u] = NULL
    BY <2>1 DEF StoreInv, Placement
  <2>3. \A q \in Priority : NULL # pxReadyTasksLists(q)
    BY ListNames, ListsDisjoint
  <2>4. exact => uxTopReadyPriority' <= uxPriority'[t]
    BY <1>1, <1>5, <1>4 DEF FirstTop, Larger, Priority
  <2>5. HighestRuns(exact)'
    BY <1>1, <2>1, <2>2, <2>3, <2>4, ListNames
       DEF HighestRuns, Created, Relinked, Priority
  <2>. QED BY <2>5 DEF SwitchOwed
<1>6. CASE pxCurrentTCB # NULL
  <2>1. /\ pxCurrentTCB \in TCB /\ pxCurrentTCB # t
        /\ uxPriority[pxCurrentTCB] \in Priority
    BY <1>1, <1>6 DEF StoreInv, CurrentAllocated, Created, Typed
  <2>2. CASE pxCurrentTCB' = pxCurrentTCB
    <3>1. CASE SwitchNoted
      <4>1. pc'[pxCurrentTCB] = "yield" \/ pc'[pxCurrentTCB] = pc[pxCurrentTCB]
        OBVIOUS
      <4>. QED BY <1>3, <2>2, <3>1, <4>1 DEF SwitchNoted, SwitchOwed, YieldAhead
    <3>2. CASE HighestRuns(exact) /\ ~(uxPriority[pxCurrentTCB] < p)
      <4>1. p <= uxPriority[pxCurrentTCB]
        BY <1>2, <2>1, <3>2 DEF Priority
      <4>2. Capped(p) <= uxPriority[pxCurrentTCB]
        BY <1>1, <1>2, <2>1, <4>1 DEF Priority
      <4>3. exact => uxTopReadyPriority' <= uxPriority[pxCurrentTCB]
        BY <1>4, <3>2, <4>2 DEF HighestRuns, Larger
      <4>4. HighestRuns(exact)'
        BY <1>1, <2>1, <2>2, <3>2, <4>2, <4>3, HighestKept, ListNames
           DEF Created
      <4>. QED BY <4>4 DEF SwitchOwed
    <3>3. CASE pc'[pxCurrentTCB] = "yield"
      BY <2>2, <3>3 DEF SwitchNoted, SwitchOwed, YieldAhead
    <3>4. ~xSchedulerRunning => ~(uxPriority[pxCurrentTCB] < p)
      <4>1. ~xSchedulerRunning => ~(uxPriority[pxCurrentTCB] <= p)
        BY <1>6, <2>1, <2>2 DEF Create
      <4>. QED BY <1>2, <2>1, <4>1 DEF Priority
    <3>. QED BY <1>6, <3>1, <3>2, <3>3, <3>4 DEF SwitchOwed
  <2>3. CASE pxCurrentTCB' # pxCurrentTCB
    <3>1. /\ ~xSchedulerRunning /\ uxPriority[pxCurrentTCB] <= p
          /\ pxCurrentTCB' = t
      BY <1>6, <2>3 DEF Create
    <3>2. pc[pxCurrentTCB] = "app" /\ pc'[t] = "app" /\ phase = "run"
      BY <2>1, <3>1 DEF LockInv, QuietBeforeStart
    <3>3. CASE SwitchNoted
      BY <1>3, <3>1, <3>2, <3>3 DEF SwitchNoted, SwitchOwed, YieldAhead
    <3>4. CASE HighestRuns(exact)
      <4>1. \A u \in TCB, q \in Priority :
              store.generic[u] = pxReadyTasksLists(q) => q <= Capped(p)
        <5>1. uxPriority[pxCurrentTCB] <= Capped(p)
          BY <1>2, <2>1, <3>1
        <5>. QED BY <1>1, <2>1, <3>4, <5>1 DEF HighestRuns, Priority
      <4>2. exact => uxTopReadyPriority' <= uxPriority'[t]
        <5>1. uxPriority[pxCurrentTCB] <= Capped(p)
          BY <1>2, <2>1, <3>1
        <5>. QED BY <1>1, <1>4, <2>1, <3>4, <5>1
                 DEF HighestRuns, Larger, Priority
      <4>3. HighestRuns(exact)'
        BY <1>1, <3>1, <4>1, <4>2, ListNames
           DEF HighestRuns, Created, Relinked, Priority
      <4>. QED BY <4>3 DEF SwitchOwed
    <3>. QED BY <1>6, <3>3, <3>4 DEF SwitchOwed
  <2>. QED BY <2>2, <2>3
<1>. QED BY <1>5, <1>6

LEMMA BootOwed ==
  ASSUME NEW exact \in BOOLEAN,
         Typed, LockInv, StoreInv, FirstTop(exact), SwitchOwed(exact), Boot
  PROVE  SwitchOwed(exact)'
<1>1. ASSUME NEW t \in Task, NEW p \in RequestedPriority,
             CreateBeforeStart(t, p)
      PROVE  SwitchOwed(exact)'
  BY <1>1, CreateOwed DEF CreateBeforeStart, TCB
<1>2. ASSUME StartScheduler
      PROVE  SwitchOwed(exact)'
  <2>1. Create(Idle, 0) /\ Idle \in TCB /\ 0 \in RequestedPriority
    BY <1>2, PrioritiesAssumption DEF StartScheduler, TCB, RequestedPriority
  <2>. QED BY <1>2, <2>1, CreateOwed DEF StartScheduler
<1>. QED BY <1>1, <1>2 DEF Boot

(* The running task goes on to a point where its yield is still ahead, or
   where nothing was ahead before. *)
LEMMA GotoOwed ==
  ASSUME NEW exact \in BOOLEAN,
         Typed, SwitchOwed(exact), NEW t \in TCB, Runs(t), NEW point,
         Goto(t, point), pc[t] \in YieldAhead => point \in YieldAhead,
         store'.generic = store.generic,
         UNCHANGED <<uxTopReadyPriority, uxPriority, pxCurrentTCB,
                     yieldPending, yieldRequired, phase>>,
         xMissedYield => xMissedYield'
  PROVE  SwitchOwed(exact)'
<1>1. pxCurrentTCB = t /\ pc'[t] = point
  BY DEF Runs, Goto, Typed
<1>2. SwitchNoted => SwitchNoted'
  BY <1>1 DEF SwitchNoted
<1>. QED BY <1>2, OwedKept

LEMMA AheadOwed ==
  ASSUME NEW exact \in BOOLEAN,
         Typed, NEW t \in TCB, Runs(t), UNCHANGED pxCurrentTCB,
         NEW point \in YieldAhead, Goto(t, point)
  PROVE  SwitchOwed(exact)'
  BY DEF SwitchOwed, SwitchNoted, Runs, Goto, Typed

LEMMA CallStepOwed ==
  ASSUME NEW exact \in BOOLEAN,
         Typed, LockInv, StoreInv, SwitchOwed(exact),
         NEW t \in TCB, CallStep(t)
  PROVE  SwitchOwed(exact)'
<1>. USE DEF tickVars, listVars, delayVars, taskVars, suspendVars, loopVars,
             runVars
<1>1. CASE YieldWithinAPI(t)
  BY <1>1 DEF YieldWithinAPI, RequestSwitch, SwitchOwed, SwitchNoted
<1>2. CASE \/ DelayUnlink(t) \/ DelayInsert(t) \/ PlaceUnlink(t)
           \/ PlaceInsert(t) \/ QueueUnlock(t)
  BY <1>2, AheadOwed
     DEF DelayUnlink, UnlinkToWakeAt, DelayInsert, PlaceUnlink, PlaceInsert,
         QueueUnlock, RunsAt, YieldAhead
<1>3. CASE UntilDecide(t)
  <2>1. Goto(t, "insert") \/ Goto(t, "resume")
    BY <1>3 DEF UntilDecide, UnlinkToWakeAt
  <2>. QED BY <1>3, <2>1, AheadOwed DEF UntilDecide, RunsAt, YieldAhead
<1>4. CASE PlaceEventItem(t)
  <2>1. store'.generic = store.generic
    BY <1>4 DEF PlaceEventItem, InsertEvent, Typed, Stores
  <2>. QED BY <1>4, <2>1, GotoOwed DEF PlaceEventItem, RunsAt, YieldAhead
<1>5. CASE ResumeAll(t)
  <2>1. /\ Runs(t) /\ pxCurrentTCB = t /\ phase = "run"
        /\ pc[t] \in {"app", "resume", "reapEmpty", "reapFull"}
        /\ UNCHANGED <<store, uxTopReadyPriority, uxPriority, pxCurrentTCB,
                       yieldPending, yieldRequired, xMissedYield>>
    BY <1>5 DEF ResumeAll, RunsApp, RunsAt, Runs, InterruptsEnabled
  <2>2. CASE phase' = "drain" /\ pc' = pc
    <3>1. SwitchNoted => SwitchNoted'
      BY <2>1, <2>2 DEF SwitchNoted
    <3>. QED BY <2>1, <3>1, OwedKept
  <2>3. CASE phase' = phase /\ Goto(t, AfterResumeAll(pc[t], FALSE))
    <3> DEFINE point == AfterResumeAll(pc[t], FALSE)
    <3>1. pc[t] = "resume" => point = "yield"
      BY DEF AfterResumeAll
    <3>2. Goto(t, point)
      BY <2>3
    <3>. HIDE DEF point
    <3>. QED BY <2>1, <2>3, <3>1, <3>2, GotoOwed DEF YieldAhead
  <2>. QED BY <1>5, <2>2, <2>3 DEF ResumeAll
<1>. QED BY <1>1, <1>2, <1>3, <1>4, <1>5 DEF CallStep

(* A readied task: the switch is requested when its priority calls for it. *)
LEMMA ReadiedOwed ==
  ASSUME NEW exact \in BOOLEAN,
         Typed, SwitchOwed(exact), pxCurrentTCB \in TCB,
         NEW t \in TCB, Readied(t),
         UNCHANGED pxCurrentTCB,
         uxPriority[t] >= uxPriority[pxCurrentTCB] => SwitchNoted',
         SwitchNoted => SwitchNoted'
  PROVE  SwitchOwed(exact)'
<1>1. pxCurrentTCB # NULL
  BY NullAssumption DEF TCB
<1>. QED BY <1>1, HighestReadied DEF SwitchOwed

(* A task of a new priority has moved to its list, or is in none; the running
   task has asked for a switch where its own fell or another one's rose. *)
LEMMA RepriorityOwed ==
  ASSUME NEW exact \in BOOLEAN,
         Typed, SwitchOwed(exact), NEW c \in TCB, c # NULL, Runs(c),
         NEW t \in TCB, NEW new \in Priority, new # uxPriority[t],
         yieldPending' = (IF new > uxPriority[t] THEN t # c ELSE t = c),
         UNCHANGED <<xMissedYield, yieldRequired, phase, pc, pxCurrentTCB>>,
         \/ Reprioritised(t)
         \/ Stayed /\ store.generic[t] # pxReadyTasksLists(uxPriority[t]),
         uxPriority'[t] = new,
         \A u \in TCB : u # t => uxPriority'[u] = uxPriority[u]
  PROVE  SwitchOwed(exact)'
<1>0. pxCurrentTCB = c /\ ~yieldPending
  BY DEF Runs
<1>1. uxPriority[t] \in Priority /\ uxPriority[c] \in Priority
  BY DEF Typed
<1>2. SwitchNoted => SwitchNoted'
  BY <1>0 DEF SwitchNoted
<1>3. ASSUME HighestRuns(exact), ~yieldPending'
      PROVE  HighestRuns(exact)'
  <2>1. CASE t = c
    <3>1. new > uxPriority[c]
      BY <1>3, <2>1
    <3>2. store.generic[c] = pxReadyTasksLists(uxPriority[c])
      BY <1>0, <1>3 DEF HighestRuns
    <3>3. Relinked(c, pxReadyTasksLists(new))
      BY <2>1, <3>2 DEF Reprioritised
    <3>4. exact => uxTopReadyPriority' <= uxPriority'[c]
      BY <1>0, <1>1, <1>3, <2>1, <3>1, <3>2
         DEF Reprioritised, HighestRuns, Larger, Typed, Priority
    <3>. QED BY <1>0, <1>1, <1>3, <2>1, <3>1, <3>3, <3>4, ListNames
             DEF HighestRuns, Relinked, Priority
  <2>2. CASE t # c
    <3>1. new <= uxPriority[t]
      <4>1. ~(new > uxPriority[t])
        BY <1>3, <2>2
      <4>. QED BY <1>1, <4>1 DEF Priority
    <3>2. CASE Reprioritised(t)
      <4>1. /\ uxPriority[t] <= uxPriority[c]
            /\ Relinked(t, pxReadyTasksLists(new))
        BY <1>0, <1>1, <1>3, <3>2 DEF Reprioritised, HighestRuns
      <4>2. new <= uxPriority[c]
        BY <1>1, <3>1, <4>1 DEF Priority
      <4>3. exact => uxTopReadyPriority' <= uxPriority[c]
        BY <1>0, <1>3, <3>2, <4>2 DEF Reprioritised, HighestRuns, Larger
      <4>. QED BY <1>0, <1>1, <1>3, <2>2, <4>1, <4>2, <4>3, ListNames,
                  HighestKept
    <3>3. CASE Stayed
      BY <1>0, <1>3, <2>2, <3>3 DEF Stayed, HighestRuns
    <3>. QED BY <3>2, <3>3
  <2>. QED BY <2>1, <2>2
<1>4. yieldPending' => SwitchNoted'
  BY DEF SwitchNoted
<1>. QED BY <1>0, <1>2, <1>3, <1>4 DEF SwitchOwed

LEMMA CallOwed ==
  ASSUME NEW exact \in BOOLEAN,
         Typed, LockInv, StoreInv, FirstTop(exact), SwitchOwed(exact),
         NEW c \in Task, Call(c)
  PROVE  SwitchOwed(exact)'
<1>. USE DEF tickVars, listVars, delayVars, taskVars, suspendVars, loopVars,
             runVars
<1>0. /\ c \in TCB /\ c # NULL
      /\ Runs(c) => pxCurrentTCB = c /\ ~yieldPending
  BY NullAssumption DEF TCB, Runs
<1>1. ASSUME NEW t \in Task, NEW p \in RequestedPriority, CreateTask(c, t, p)
      PROVE  SwitchOwed(exact)'
  <2>1. /\ Create(t, p) /\ t \in TCB /\ pxCurrentTCB = c /\ pc[c] = "app"
        /\ xSchedulerRunning /\ UNCHANGED yieldPending
    BY <1>1 DEF CreateTask, RunsApp, RunsAt, Runs, InterruptsEnabled, TCB
  <2>2. t # c
    BY <2>1, NullAssumption
       DEF Create, StoreInv, CurrentAllocated, TCB
  <2>3. pc'[c] = IF uxPriority[c] < p THEN "yield" ELSE "app"
    BY <1>0, <1>1, <2>2 DEF CreateTask, Typed
  <2>. QED BY <2>1, <2>3, CreateOwed
<1>2. CASE TaskYield(c)
  BY <1>2 DEF TaskYield, RequestSwitch, SwitchOwed, SwitchNoted
<1>3. CASE \/ AppSuspendAll(c) \/ DelayZero(c) \/ DelaySuspend(c)
           \/ DelayUntilSuspend(c) \/ \E e \in Event : QueueSuspend(c, e)
  BY <1>0, <1>3, GotoOwed
     DEF AppSuspendAll, DelayZero, DelaySuspend, DelayUntilSuspend,
         QueueSuspend, SuspendAll, MayBlock, RunsApp, RunsAt, YieldAhead
<1>4. ASSUME NEW e \in Event, TaskSignals(c, e)
      PROVE  SwitchOwed(exact)'
  <2> DEFINE t == OwnerOfHead(store, EventList(e))
  <2>1. /\ Runs(c) /\ phase = "run" /\ HasWaiter(e) /\ RemoveFromEventList(e)
        /\ uxSchedulerSuspended = 0
        /\ yieldPending' = (uxPriority[t] >= uxPriority[pxCurrentTCB])
        /\ UNCHANGED <<taskVars, xMissedYield, yieldRequired, phase, pc,
                       pxCurrentTCB>>
    BY <1>4 DEF TaskSignals, MayBlock, RunsApp, RunsAt, Runs,
                InterruptsEnabled, UnblocksHigher
  <2>2. t \in TCB /\ Readied(t)
    BY <2>1, SignalEffect
  <2>. HIDE DEF t
  <2>3. SwitchNoted => SwitchNoted'
    BY <1>0, <2>1 DEF SwitchNoted
  <2>4. uxPriority[t] >= uxPriority[pxCurrentTCB] => SwitchNoted'
    BY <2>1 DEF SwitchNoted
  <2>. QED BY <1>0, <2>1, <2>2, <2>3, <2>4, ReadiedOwed
<1>5. ASSUME NEW t \in Task, ResumeTask(c, t)
      PROVE  SwitchOwed(exact)'
  <2>1. /\ Runs(c)
        /\ t \in allocated /\ IsTaskSuspended(t)
        /\ AddTaskToReadyQueue(RemoveGeneric(store, t), t, uxPriority[t])
        /\ yieldPending' = (uxPriority[t] >= uxPriority[c])
        /\ UNCHANGED <<taskVars, xMissedYield, yieldRequired, phase, pc,
                       pxCurrentTCB>>
    BY <1>5 DEF ResumeTask, RunsApp, RunsAt, Live
  <2>2. t \in TCB /\ Readied(t)
    BY <2>1, ResumeEffect DEF StoreInv
  <2>3. SwitchNoted => SwitchNoted'
    BY <1>0, <2>1 DEF SwitchNoted
  <2>4. uxPriority[t] >= uxPriority[pxCurrentTCB] => SwitchNoted'
    BY <1>0, <2>1 DEF SwitchNoted
  <2>. QED BY <1>0, <2>1, <2>2, <2>3, <2>4, ReadiedOwed
<1>6. ASSUME NEW t \in Task, SuspendTask(c, t) \/ DeleteTask(c, t)
      PROVE  SwitchOwed(exact)'
  <2>1. /\ Runs(c) /\ pc[c] = "app" /\ t \in Live
        /\ Goto(c, IF t = c THEN "yield" ELSE "app")
        /\ UNCHANGED <<uxTopReadyPriority, uxPriority, pxCurrentTCB,
                       yieldPending, xMissedYield, yieldRequired, phase>>
    BY <1>6 DEF SuspendTask, DeleteTask, RunsApp, RunsAt
  <2>2. PICK l \in {xSuspendedTaskList, xTasksWaitingTermination} :
           store' = InsertEndGeneric(
                      RemoveEventIfLinked(RemoveGeneric(store, t), t), l, t)
    BY <1>6 DEF SuspendTask, DeleteTask, Terminate
  <2>3. l \in GenericLists /\ l \notin ReadyLists
    BY ListNames
  <2>4. ~BetweenLists(t)
    BY <1>0, <2>1, RunningTask DEF BetweenLists, Live, Typed
  <2>5. Relinked(t, l)
    BY <2>1, <2>2, <2>3, <2>4, MoveEffect DEF StoreInv
  <2>6. CASE t = c
    BY <1>0, <2>1, <2>6, AheadOwed DEF YieldAhead
  <2>7. CASE t # c
    <3>1. pc'[c] = "app"
      BY <1>0, <2>1, <2>7 DEF Goto, Typed
    <3>2. SwitchNoted => SwitchNoted'
      BY <1>0, <2>1, <3>1 DEF SwitchNoted
    <3>3. HighestRuns(exact) => HighestRuns(exact)'
      BY <1>0, <2>1, <2>3, <2>5, <2>7, HighestLeft
    <3>. QED BY <1>0, <2>1, <3>2, <3>3 DEF SwitchOwed
  <2>. QED BY <2>6, <2>7
<1>7. ASSUME NEW t \in Task, NEW p \in RequestedPriority, PrioritySet(c, t, p)
      PROVE  SwitchOwed(exact)'
  <2> DEFINE new == Capped(p)
  <2>1. /\ Runs(c) /\ new # uxPriority[t]
        /\ yieldPending' = (IF new > uxPriority[t] THEN t # c ELSE t = c)
        /\ UNCHANGED <<xMissedYield, yieldRequired, phase, pc, pxCurrentTCB>>
    BY <1>7 DEF PrioritySet, RunsApp, RunsAt
  <2>2. /\ \/ Reprioritised(t)
           \/ Stayed /\ store.generic[t] # pxReadyTasksLists(uxPriority[t])
        /\ uxPriority'[t] = new
        /\ \A u \in TCB : u # t => uxPriority'[u] = uxPriority[u]
    BY <1>7, PrioritySetEffect
  <2>3. /\ t \in TCB /\ new \in Priority /\ uxPriority[t] \in Priority
        /\ uxPriority[c] \in Priority
    BY <1>0, CappedType DEF TCB, Typed, RequestedPriority
  <2>. HIDE DEF new
  <2>. QED BY <1>0, <2>1, <2>2, <2>3, RepriorityOwed
<1>. QED BY <1>1, <1>2, <1>3, <1>4, <1>5, <1>6, <1>7 DEF Call

LEMMA IdleOwed ==
  ASSUME NEW exact \in BOOLEAN,
         Typed, LockInv, StoreInv, SwitchOwed(exact), IdleStep
  PROVE  SwitchOwed(exact)'
<1>. USE DEF tickVars, listVars, delayVars, taskVars, suspendVars, loopVars,
             runVars
<1>0. /\ Idle \in TCB /\ Idle # NULL
      /\ Runs(Idle) => pxCurrentTCB = Idle /\ ~yieldPending
  BY NullAssumption DEF TCB, Runs
<1>1. CASE IdleSuspend \/ IdleReadList
  BY <1>0, <1>1, GotoOwed
     DEF IdleSuspend, IdleReadList, SuspendAll, RunsAt, YieldAhead
<1>2. CASE IdleReap
  <2> DEFINE t == OwnerOfHead(store, xTasksWaitingTermination)
  <2>1. Reaped(t)
    BY <1>2, ReapEffect
  <2>2. /\ Runs(Idle) /\ pc[Idle] = "reap"
        /\ UNCHANGED <<uxTopReadyPriority, uxPriority, pxCurrentTCB,
                       yieldPending, xMissedYield, yieldRequired, phase>>
    BY <1>2 DEF IdleReap, Reap, RunsAt
  <2>. HIDE DEF t
  <2>3. t # Idle /\ Relinked(t, NULL) /\ NULL \notin ReadyLists
    BY <1>0, <2>1, <2>2, RunningTask, ListNames, ListsDisjoint DEF Reaped
  <2>4. SwitchNoted => SwitchNoted'
    BY <1>0, <2>2 DEF SwitchNoted, YieldAhead
  <2>5. HighestRuns(exact) => HighestRuns(exact)'
    BY <1>0, <2>2, <2>3, HighestLeft
  <2>. QED BY <1>0, <2>2, <2>4, <2>5 DEF SwitchOwed
<1>3. CASE IdleLoop
  <2>1. /\ Runs(Idle) /\ pc[Idle] \in {"app", "idleYield"}
        /\ UNCHANGED <<store, uxTopReadyPriority, uxPriority, pxCurrentTCB,
                       xMissedYield, yieldRequired, phase>>
    BY <1>3 DEF IdleLoop, RunsAt
  <2>2. SwitchNoted => SwitchNoted'
    BY <1>0, <2>1 DEF SwitchNoted, YieldAhead
  <2>. QED BY <2>1, <2>2, OwedKept
<1>. QED BY <1>1, <1>2, <1>3 DEF IdleStep

LEMMA MaskedOwed ==
  ASSUME NEW exact \in BOOLEAN,
         Typed, LockInv, StoreInv, HeldBack, SwitchOwed(exact), MaskedStep
  PROVE  SwitchOwed(exact)'
<1>. USE DEF tickVars, listVars, delayVars, taskVars, suspendVars, loopVars,
             runVars
<1>0. /\ pxCurrentTCB \in TCB
      /\ pxCurrentTCB # NULL
  BY NullAssumption
     DEF LockInv, QuietBeforeStart, TCB, MaskedStep, DrainPending, DrainDone,
         ReplayTick, ReplayTickDone, ResumeAllDone, WakeHead,
         TickInterruptDone
<1>1. CASE DrainPending
  <2> DEFINE t == OwnerOfHead(store, xPendingReadyList)
  <2>1. Readied(t)
    BY <1>1, DrainEffect
  <2>2. /\ yieldRequired' = (yieldRequired
                               \/ uxPriority[t] >= uxPriority[pxCurrentTCB])
        /\ UNCHANGED <<pxCurrentTCB, yieldPending, xMissedYield, phase, pc>>
    BY <1>1 DEF DrainPending
  <2>. HIDE DEF t
  <2>3. t \in TCB
    BY <2>1 DEF Readied, Relinked
  <2>4. SwitchNoted => SwitchNoted'
    BY <2>2 DEF SwitchNoted
  <2>5. uxPriority[t] >= uxPriority[pxCurrentTCB] => SwitchNoted'
    BY <2>2 DEF SwitchNoted
  <2>. QED BY <1>0, <2>1, <2>2, <2>3, <2>4, <2>5, ReadiedOwed
<1>2. CASE WakeHead
  BY <1>2 DEF WakeHead, HeldBack, SwitchOwed, SwitchNoted
<1>3. CASE DrainDone \/ ReplayTickDone
  <2>1. SwitchNoted => SwitchNoted'
    BY <1>3 DEF DrainDone, ReplayTickDone, SwitchNoted
  <2>. QED BY <1>3, <2>1, OwedKept DEF DrainDone, ReplayTickDone
<1>4. CASE ReplayTick \/ TickInterruptDone
  BY <1>4 DEF ReplayTick, TickInterruptDone, SwitchOwed, SwitchNoted
<1>5. CASE ResumeAllDone
  <2> DEFINE yields == yieldRequired \/ xMissedYield
             point == AfterResumeAll(pc[pxCurrentTCB], yields)
  <2>1. /\ phase = "replay"
        /\ yieldPending' = (yieldPending \/ yields)
        /\ Goto(pxCurrentTCB, point)
        /\ UNCHANGED <<store, uxTopReadyPriority, uxPriority, pxCurrentTCB>>
    BY <1>5 DEF ResumeAllDone
  <2>2. pc[pxCurrentTCB] \in {"app", "resume", "reapEmpty", "reapFull"}
    BY <2>1 DEF StoreInv, LoopCaller
  <2>3. pc[pxCurrentTCB] = "resume" /\ ~yields => point = "yield"
    BY DEF AfterResumeAll
  <2>. HIDE DEF point
  <2>4. pc'[pxCurrentTCB] = point
    BY <1>0, <2>1 DEF Goto, Typed
  <2>5. CASE yields
    BY <2>1, <2>5 DEF SwitchOwed, SwitchNoted
  <2>6. CASE ~yields
    <3>1. SwitchNoted => SwitchNoted'
      BY <2>1, <2>2, <2>3, <2>4, <2>6 DEF SwitchNoted, YieldAhead
    <3>. QED BY <2>1, <3>1, OwedKept
  <2>. QED BY <2>5, <2>6
<1>. QED BY <1>1, <1>2, <1>3, <1>4, <1>5 DEF MaskedStep

LEMMA InterruptOwed ==
  ASSUME NEW exact \in BOOLEAN,
         Typed, LockInv, StoreInv, Cached, SwitchOwed(exact),
         TickISR \/ OtherISR \/ Switch
  PROVE  SwitchOwed(exact)'
<1>. USE DEF tickVars, listVars, delayVars, taskVars, suspendVars, loopVars,
             runVars
<1>0. pxCurrentTCB \in TCB /\ phase = "run"
  BY DEF LockInv, TickISR, TickInterrupt, TickInterruptMissed, OtherISR,
         ResumeFromISR, InterruptSignals, InterruptSignalsLocked, Switch,
         SwitchContext, SwitchAllowed, SwitchMissed, InterruptsEnabled
<1>1. CASE TickInterrupt \/ TickInterruptMissed \/ SwitchMissed
  BY <1>1 DEF TickInterrupt, TickInterruptMissed, SwitchMissed, SwitchOwed,
              SwitchNoted
<1>2. ASSUME NEW t \in TCB, Readied(t),
             yieldPending' = (yieldPending
                                \/ uxPriority[t] >= uxPriority[pxCurrentTCB]),
             UNCHANGED <<pxCurrentTCB, xMissedYield, yieldRequired, phase, pc>>
      PROVE  SwitchOwed(exact)'
  <2>1. SwitchNoted => SwitchNoted'
    BY <1>2 DEF SwitchNoted
  <2>2. uxPriority[t] >= uxPriority[pxCurrentTCB] => SwitchNoted'
    BY <1>2 DEF SwitchNoted
  <2>. QED BY <1>0, <1>2, <2>1, <2>2, ReadiedOwed
<1>3. ASSUME store'.generic = store.generic, yieldPending => yieldPending',
             UNCHANGED <<uxTopReadyPriority, uxPriority, pxCurrentTCB,
                         xMissedYield, yieldRequired, phase, pc>>
      PROVE  SwitchOwed(exact)'
  <2>1. SwitchNoted => SwitchNoted'
    BY <1>3 DEF SwitchNoted
  <2>. QED BY <1>3, <2>1, OwedKept
<1>4. ASSUME NEW t \in Task, ResumeFromISR(t)
      PROVE  SwitchOwed(exact)'
  <2>1. IF uxSchedulerSuspended = 0 THEN Readied(t) ELSE Stayed
    BY <1>4, ResumeFromISREffect
  <2>2. CASE uxSchedulerSuspended = 0
    BY <1>2, <1>4, <2>1, <2>2 DEF ResumeFromISR, ListsAccessible, TCB
  <2>3. CASE uxSchedulerSuspended # 0
    BY <1>3, <1>4, <2>1, <2>3 DEF ResumeFromISR, ListsAccessible, Stayed
  <2>. QED BY <2>2, <2>3
<1>5. ASSUME NEW e \in Event, InterruptSignals(e)
      PROVE  SwitchOwed(exact)'
  <2> DEFINE t == OwnerOfHead(store, EventList(e))
  <2>1. /\ HasWaiter(e) /\ RemoveFromEventList(e)
        /\ yieldPending' = (yieldPending
                              \/ uxPriority[t] >= uxPriority[pxCurrentTCB])
        /\ UNCHANGED <<taskVars, pxCurrentTCB, xMissedYield, yieldRequired,
                       phase, pc>>
    BY <1>5 DEF InterruptSignals, UnblocksHigher
  <2>2. t \in TCB /\ (IF uxSchedulerSuspended = 0 THEN Readied(t) ELSE Stayed)
    BY <1>0, <2>1, SignalEffect
  <2>. HIDE DEF t
  <2>3. CASE uxSchedulerSuspended = 0
    BY <1>2, <2>1, <2>2, <2>3
  <2>4. CASE uxSchedulerSuspended # 0
    <3>1. store'.generic = store.generic /\ UNCHANGED uxTopReadyPriority
      BY <2>2, <2>4 DEF Stayed
    <3>. QED BY <1>3, <2>1, <3>1
  <2>. QED BY <2>3, <2>4
<1>6. ASSUME NEW e \in Event, InterruptSignalsLocked(e)
      PROVE  SwitchOwed(exact)'
  BY <1>3, <1>6 DEF InterruptSignalsLocked
<1>7. CASE SwitchContext
  <2>1. /\ Searched
        /\ store.generic[pxCurrentTCB'] = pxReadyTasksLists(uxTopReadyPriority')
        /\ uxPriority[pxCurrentTCB'] = uxTopReadyPriority'
    BY <1>7, SwitchEffect
  <2>2. Typed'
    BY TypeStep, <1>7 DEF Switch, Next
  <2>3. HighestRuns(exact)'
    BY <2>1, <2>2 DEF HighestRuns, Searched, Typed, Priority
  <2>. QED BY <2>3 DEF SwitchOwed
<1>. QED BY <1>1, <1>4, <1>5, <1>6, <1>7 DEF TickISR, OtherISR, Switch

-----------------------------------------------------------------------------
LEMMA FirstTopStep ==
  ASSUME NEW exact \in BOOLEAN,
         Typed, LockInv, StoreInv, Next
  PROVE  FirstTop(exact)'
<1>1. CASE Boot
  BY <1>1, NullAssumption
     DEF Boot, CreateBeforeStart, StartScheduler, Create, FirstTop, TCB
<1>2. CASE xSchedulerRunning' = xSchedulerRunning /\ xSchedulerRunning
  <2>1. Typed' /\ LockInv'
    BY TypeStep, LockStep
  <2>. QED BY <1>2, <2>1, NullAssumption DEF LockInv, FirstTop, TCB
<1>. QED BY <1>1, <1>2, StartedByBoot

LEMMA InitDispatch == Init => DispatchInv
<1>. SUFFICES ASSUME Init PROVE DispatchInv
  OBVIOUS
<1>1. /\ \A t \in TCB : store.generic[t] = NULL /\ store.event[t] = NULL
      /\ \A p \in Priority : NULL # pxReadyTasksLists(p)
      /\ NULL # xPendingReadyList /\ NULL # xTasksWaitingTermination
  BY ListNames, ListsDisjoint DEF Init, EmptyStore
<1>2. InList(xTasksWaitingTermination) = {}
  BY <1>1 DEF InList
<1>3. HeldBack /\ Cached
  BY <1>1 DEF Init, HeldBack, Cached
<1>4. IdleReady
  BY DEF Init, IdleReady, IdlePoints, TCB
<1>5. Counted
  BY <1>2, FS_EmptySet DEF Init, Counted, TCB
<1>. QED BY <1>3, <1>4, <1>5
         DEF Init, DispatchInv, DispatchInvIf, FirstTop, SwitchOwed

LEMMA StutterDispatch ==
  ASSUME NEW exact \in BOOLEAN, DispatchInvIf(exact), UNCHANGED vars
  PROVE  DispatchInvIf(exact)'
  BY DEF vars, tickVars, listVars, delayVars, taskVars, suspendVars, loopVars,
         runVars, DispatchInvIf, HeldBack, Cached, IdleReady, Counted, InList,
         FirstTop, SwitchOwed, HighestRuns, SwitchNoted

LEMMA DispatchStep ==
  ASSUME NEW exact \in BOOLEAN, Typed, LockInv, StoreInv,
         DispatchInvIf(exact), [Next]_vars
  PROVE  DispatchInvIf(exact)'
<1>. SUFFICES ASSUME Next
              PROVE  DispatchInvIf(exact)'
  BY StutterDispatch
<1>1. Typed'
  BY TypeStep
<1>2. Effect /\ Unheld /\ IdlePlace
  BY StepEffect, IdlePlaceStep DEF DispatchInvIf
<1>3. HeldBack'
  BY <1>1, <1>2, HeldBackStep DEF DispatchInvIf
<1>4. Cached'
  BY <1>1, <1>2, EffectCached DEF DispatchInvIf
<1>5. IdleReady'
  BY <1>1, <1>2, IdleReadyStep DEF DispatchInvIf
<1>6. Counted'
  BY <1>1, <1>2, CountedStep DEF DispatchInvIf
<1>7. SwitchOwed(exact)'
  BY BootOwed, CallStepOwed, CallOwed, IdleOwed, MaskedOwed, InterruptOwed
     DEF DispatchInvIf, Next
<1>8. FirstTop(exact)'
  BY FirstTopStep
<1>. QED BY <1>3, <1>4, <1>5, <1>6, <1>7, <1>8 DEF DispatchInvIf

LEMMA DispatchInvariance == Spec => []DispatchInv
<1>1. Init => DispatchInv
  BY InitDispatch
<1>2. Typed /\ LockInv /\ StoreInv /\ DispatchInv /\ [Next]_vars
        => DispatchInv'
  BY DispatchStep DEF DispatchInv
<1>. QED BY <1>1, <1>2, Invariance, StoreInvariance, PTL DEF Spec

-----------------------------------------------------------------------------
LEMMA ReadyCacheHolds ==
  ASSUME NEW exact \in BOOLEAN, Typed, StoreInv, DispatchInvIf(exact)
  PROVE  ReadyCache
<1>. SUFFICES ASSUME xSchedulerRunning
              PROVE  /\ \A p \in Priority :
                           ReadyAt(p) => p <= uxTopReadyPriority
                     /\ \E p \in Priority : ReadyAt(p)
  BY DEF ReadyCache
<1>1. \A p \in Priority : ReadyAt(p) => p <= uxTopReadyPriority
  BY ReadyMembers DEF StoreInv, DispatchInvIf, Cached
<1>2. Idle \in TCB /\ store.generic[Idle] \in ReadyLists
  BY DEF DispatchInvIf, IdleReady, TCB
<1>3. PICK p \in Priority : store.generic[Idle] = pxReadyTasksLists(p)
  BY <1>2 DEF ReadyLists
<1>4. ReadyAt(p)
  BY <1>2, <1>3, ReadyMembers DEF StoreInv
<1>. QED BY <1>1, <1>4

(* The search of vTaskSwitchContext starts at or above every ready list that
   holds a task, and ends before it wraps: the idle task is always ready. *)
THEOREM SearchFindsHighest == Spec => []ReadyCache
<1>1. Typed /\ StoreInv /\ DispatchInv => ReadyCache
  BY ReadyCacheHolds DEF DispatchInv
<1>. QED BY <1>1, Invariance, StoreInvariance, DispatchInvariance, PTL

LEMMA SettledHolds ==
  ASSUME NEW exact \in BOOLEAN, Typed, LockInv, StoreInv, DispatchInvIf(exact)
  PROVE  DispatchSettled
<1>. SUFFICES ASSUME InterruptsEnabled, ~yieldPending,
                     uxSchedulerSuspended = 0, pc[pxCurrentTCB] # "yield"
              PROVE  /\ store.generic[pxCurrentTCB]
                          = pxReadyTasksLists(uxPriority[pxCurrentTCB])
                     /\ \A p \in Priority :
                           ReadyAt(p) => p <= uxPriority[pxCurrentTCB]
  BY DEF DispatchSettled
<1>1. /\ xSchedulerRunning /\ phase = "run"
      /\ pxCurrentTCB \in TCB /\ pxCurrentTCB # NULL
  BY NullAssumption DEF InterruptsEnabled, LockInv, TCB
<1>2. pc[pxCurrentTCB] \notin YieldAhead
  BY <1>1 DEF LockInv, WindowsAlone, Windows, YieldAhead
<1>3. ~xMissedYield /\ ~yieldRequired
  BY <1>1 DEF DispatchInvIf, HeldBack
<1>4. HighestRuns(exact)
  BY <1>1, <1>2, <1>3 DEF DispatchInvIf, SwitchOwed, SwitchNoted
<1>. QED BY <1>4, ReadyMembers DEF StoreInv, HighestRuns

(* A task that makes a step with no switch requested is ready, and no ready
   task has a higher priority: no event that readies a task, raises or lowers
   a priority, or ends a suspension forgets the switch it has to request. *)
THEOREM HighestPriorityRuns == Spec => []DispatchSettled
<1>1. Typed /\ LockInv /\ StoreInv /\ DispatchInv => DispatchSettled
  BY SettledHolds DEF DispatchInv
<1>. QED BY <1>1, Invariance, StoreInvariance, DispatchInvariance, PTL

(* When xTaskResumeAll ends a suspension it has readied every task, replayed
   every tick and honoured every yield that interrupts left for it. *)
THEOREM SuspensionLeavesNothing == Spec => []NothingHeldBack
<1>1. Typed /\ StoreInv /\ DispatchInv => NothingHeldBack
  <2>. SUFFICES ASSUME Typed, StoreInv, DispatchInv,
                       uxSchedulerSuspended = 0, phase = "run"
                PROVE  /\ IsEmpty(store, xPendingReadyList)
                       /\ uxMissedTicks = 0
                       /\ ~xMissedYield
    BY DEF NothingHeldBack
  <2>1. \A t \in TCB : store.event[t] # xPendingReadyList
    BY DEF DispatchInv, DispatchInvIf, HeldBack
  <2>2. IsEmpty(store, xPendingReadyList)
    BY <2>1, RingMembers, ListNames DEF Typed, StoreInv, StoreConsistent
  <2>3. ~(uxMissedTicks > 0) /\ ~xMissedYield
    BY DEF DispatchInv, DispatchInvIf, HeldBack
  <2>. QED BY <2>2, <2>3 DEF Typed
<1>. QED BY <1>1, Invariance, StoreInvariance, DispatchInvariance, PTL

(* uxTasksDeleted, which the idle task reads without a lock, is the length of
   the termination list; the list holds a task when the idle task unlinks its
   head, and that is never the running one. *)
THEOREM CountsExact == Spec => []TaskCounts
<1>1. Typed /\ LockInv /\ StoreInv /\ DispatchInv => TaskCounts
  <2>. SUFFICES ASSUME Typed, LockInv, StoreInv, DispatchInv
                PROVE  TaskCounts
    OBVIOUS
  <2>1. Len(store.ring[xTasksWaitingTermination])
          = Cardinality(InList(xTasksWaitingTermination))
    BY RingLength, ListNames
       DEF InList, Typed, StoreInv, StoreConsistent
  <2>2. InList(xTasksWaitingTermination) # {}
           => ~IsEmpty(store, xTasksWaitingTermination)
    BY RingMembers, ListNames
       DEF InList, Typed, StoreInv, StoreConsistent
  <2>3. xSchedulerRunning => pxCurrentTCB \in allocated
    BY NullAssumption DEF LockInv, StoreInv, CurrentAllocated, TCB
  <2>. QED BY <2>1, <2>2, <2>3
           DEF DispatchInv, DispatchInvIf, Counted, TaskCounts
<1>. QED BY <1>1, Invariance, StoreInvariance, DispatchInvariance, PTL

-----------------------------------------------------------------------------
(* The two delay lists never are one. *)
ListsApart == pxDelayedTaskList # pxOverflowDelayedTaskList

LEMMA ListsApartStep ==
  ASSUME ListsApart, Next
  PROVE  ListsApart'
<1>. USE DEF tickVars
<1>1. ASSUME UNCHANGED <<pxDelayedTaskList, pxOverflowDelayedTaskList>>
      PROVE  ListsApart'
  BY <1>1 DEF ListsApart
<1>2. ASSUME NEW t, NEW p, Create(t, p)
      PROVE  ListsApart'
  BY <1>2 DEF Create, ListsApart, xDelayedTaskList1, xDelayedTaskList2
<1>3. ASSUME IncrementTick
      PROVE  ListsApart'
  BY <1>3 DEF IncrementTick, SwapDelayLists, ListsApart
<1>4. CASE Boot
  BY <1>2, <1>4 DEF Boot, CreateBeforeStart, StartScheduler
<1>5. ASSUME NEW t \in TCB, CallStep(t)
      PROVE  ListsApart'
  BY <1>1, <1>5 DEF CallStep, YieldWithinAPI, RequestSwitch, DelayUnlink,
       UntilDecide, DelayInsert, PlaceEventItem, PlaceUnlink, PlaceInsert,
       QueueUnlock, ResumeAll
<1>6. ASSUME NEW c \in Task, Call(c)
      PROVE  ListsApart'
  <2>1. CASE \E u \in Task, p \in RequestedPriority : CreateTask(c, u, p)
    BY <1>2, <2>1 DEF CreateTask
  <2>. QED BY <1>1, <1>6, <2>1 DEF Call, AppSuspendAll, SuspendAll, TaskYield,
         RequestSwitch, DelayZero, DelaySuspend, DelayUntilSuspend,
         QueueSuspend, TaskSignals, SuspendTask, ResumeTask, DeleteTask,
         PrioritySet
<1>7. CASE IdleStep
  BY <1>1, <1>7 DEF IdleStep, IdleSuspend, SuspendAll, IdleReadList, IdleReap,
                    Reap,
       IdleLoop
<1>8. CASE MaskedStep
  BY <1>1, <1>3, <1>8 DEF MaskedStep, DrainPending, DrainDone, ReplayTick,
       ReplayTickDone, ResumeAllDone, WakeHead, TickInterruptDone
<1>9. CASE TickISR \/ OtherISR \/ Switch
  BY <1>1, <1>3, <1>9 DEF TickISR, TickInterrupt, TickInterruptMissed, OtherISR,
       ResumeFromISR, InterruptSignals, InterruptSignalsLocked, Switch,
       SwitchContext, SwitchMissed
<1>. QED BY <1>4, <1>5, <1>6, <1>7, <1>8, <1>9 DEF Next

-----------------------------------------------------------------------------
(* Time: the delay lists. *)

(* The lists that vListInsert fills. *)
SortedLists == DelayLists \cup {EventList(e) : e \in Event}

(* Whatever the values are by which a sorted list was in order in store L, it
   is in order by them in store M. *)
KeepsOrder(L, M) ==
  \A l \in SortedLists : \A value :
    Ordered(L.ring[l], value) => Ordered(M.ring[l], value)

-----------------------------------------------------------------------------
(* The operations on a store that keep the sorted lists in order. *)

LEMMA SortedListNames ==
  /\ SortedLists \subseteq Lists
  /\ ReadyLists \cap SortedLists = {}
  /\ xSuspendedTaskList \notin SortedLists
  /\ xTasksWaitingTermination \notin SortedLists
  /\ xPendingReadyList \notin SortedLists
<1>1. \A l \in DelayLists :
         /\ l \in GenericLists /\ l \notin EventLists /\ l \notin ReadyLists
         /\ l # xSuspendedTaskList /\ l # xTasksWaitingTermination
  BY ListNames, ListsDisjoint
<1>2. \A e \in Event :
         /\ EventList(e) \in EventLists /\ EventList(e) \notin GenericLists
         /\ EventList(e) # xPendingReadyList
  BY ListNames, ListsDisjoint
<1>. QED BY <1>1, <1>2, ListNames, ListsDisjoint DEF SortedLists

LEMMA KeepsOrderTrans ==
  ASSUME NEW L, NEW M, NEW N, KeepsOrder(L, M), KeepsOrder(M, N)
  PROVE  KeepsOrder(L, N)
  BY DEF KeepsOrder

LEMMA SameRingsKeepOrder ==
  ASSUME NEW L, NEW M, \A l \in SortedLists : M.ring[l] = L.ring[l]
  PROVE  KeepsOrder(L, M)
  BY DEF KeepsOrder

LEMMA EmptyKeepsOrder == \A L : KeepsOrder(L, EmptyStore)
<1>1. \A l \in SortedLists : EmptyStore.ring[l] = <<>>
  BY SortedListNames DEF EmptyStore
<1>. QED BY <1>1 DEF KeepsOrder, Ordered

(* One ring loses an item. *)
LEMMA ThinnedKeepsOrder ==
  ASSUME NEW L \in Stores, NEW M, NEW t,
         \A l \in Lists : \/ M.ring[l] = L.ring[l]
                          \/ M.ring[l] = ViewRemove(L.ring[l], t)
  PROVE  KeepsOrder(L, M)
<1>. SUFFICES ASSUME NEW l \in SortedLists, NEW value, Ordered(L.ring[l], value)
              PROVE  Ordered(M.ring[l], value)
  BY DEF KeepsOrder
<1>1. l \in Lists /\ L.ring[l] \in Seq(TCB)
  BY SortedListNames DEF Stores
<1>2. Ordered(ViewRemove(L.ring[l], t), value)
  BY <1>1, ViewRemoveOrdered
<1>. QED BY <1>1, <1>2

LEMMA RemoveKeepsOrder ==
  ASSUME NEW L \in Stores, NEW t \in TCB
  PROVE  /\ KeepsOrder(L, RemoveGeneric(L, t))
         /\ KeepsOrder(L, RemoveEvent(L, t))
         /\ KeepsOrder(L, RemoveEventIfLinked(L, t))
<1>1. \A l \in Lists :
         RemoveGeneric(L, t).ring[l] =
           IF l = L.generic[t] THEN ViewRemove(L.ring[l], t) ELSE L.ring[l]
  BY DEF RemoveGeneric, Stores
<1>2. \A l \in Lists :
         RemoveEvent(L, t).ring[l] =
           IF l = L.event[t] THEN ViewRemove(L.ring[l], t) ELSE L.ring[l]
  BY DEF RemoveEvent, Stores
<1>3. KeepsOrder(L, RemoveGeneric(L, t))
  BY <1>1, ThinnedKeepsOrder
<1>4. KeepsOrder(L, RemoveEvent(L, t))
  BY <1>2, ThinnedKeepsOrder
<1>5. KeepsOrder(L, L)
  BY SameRingsKeepOrder
<1>. QED BY <1>3, <1>4, <1>5 DEF RemoveEventIfLinked

(* vListInsertEnd, which the code uses for the other lists only. *)
LEMMA InsertEndKeepsOrder ==
  ASSUME NEW L \in Stores, NEW t \in TCB, NEW l \in Lists \ SortedLists
  PROVE  /\ KeepsOrder(L, InsertEndGeneric(L, l, t))
         /\ KeepsOrder(L, InsertEndEvent(L, l, t))
         /\ KeepsOrder(L, NextEntry(L, l))
<1>1. \A k \in SortedLists :
         /\ InsertEndGeneric(L, l, t).ring[k] = L.ring[k]
         /\ InsertEndEvent(L, l, t).ring[k] = L.ring[k]
         /\ NextEntry(L, l).ring[k] = L.ring[k]
  BY SortedListNames
     DEF InsertEndGeneric, InsertEndEvent, NextEntry, Stores
<1>. QED BY <1>1, SameRingsKeepOrder

(* A task leaves its lists for a ready list, the suspended list or the
   termination list. *)
LEMMA MoveKeepsOrder ==
  ASSUME NEW L \in Stores, NEW t \in TCB, NEW l \in GenericLists \ DelayLists
  PROVE  /\ KeepsOrder(L, InsertEndGeneric(L, l, t))
         /\ KeepsOrder(L, InsertEndGeneric(RemoveGeneric(L, t), l, t))
         /\ KeepsOrder(L, InsertEndGeneric(
                 RemoveEventIfLinked(RemoveGeneric(L, t), t), l, t))
         /\ KeepsOrder(L, InsertEndGeneric(
                 RemoveGeneric(RemoveEvent(L, t), t), l, t))
         /\ KeepsOrder(L, InsertEndEvent(RemoveEvent(L, t),
                                         xPendingReadyList, t))
<1> DEFINE A == RemoveGeneric(L, t)
           B == RemoveEventIfLinked(A, t)
           C == RemoveEvent(L, t)
           D == RemoveGeneric(C, t)
<1>1. l \in Lists \ SortedLists /\ xPendingReadyList \in Lists \ SortedLists
  BY ListNames, ListsDisjoint, SortedListNames DEF SortedLists
<1>2. A \in Stores /\ C \in Stores
  BY RemoveGenericType, RemoveEventType
<1>3. KeepsOrder(L, A) /\ KeepsOrder(L, C)
  BY RemoveKeepsOrder
<1>. HIDE DEF A, C
<1>4. B \in Stores /\ D \in Stores
  BY <1>2, RemoveGenericType, RemoveEventType
<1>5. KeepsOrder(A, B) /\ KeepsOrder(C, D)
  BY <1>2, RemoveKeepsOrder
<1>. HIDE DEF B, D
<1>6. KeepsOrder(L, B) /\ KeepsOrder(L, D)
  BY <1>3, <1>5, KeepsOrderTrans
<1>7. /\ KeepsOrder(A, InsertEndGeneric(A, l, t))
      /\ KeepsOrder(B, InsertEndGeneric(B, l, t))
      /\ KeepsOrder(D, InsertEndGeneric(D, l, t))
      /\ KeepsOrder(C, InsertEndEvent(C, xPendingReadyList, t))
      /\ KeepsOrder(L, InsertEndGeneric(L, l, t))
  BY <1>1, <1>2, <1>4, InsertEndKeepsOrder
<1>8. /\ KeepsOrder(L, InsertEndGeneric(A, l, t))
      /\ KeepsOrder(L, InsertEndGeneric(B, l, t))
      /\ KeepsOrder(L, InsertEndGeneric(D, l, t))
      /\ KeepsOrder(L, InsertEndEvent(C, xPendingReadyList, t))
  BY <1>3, <1>6, <1>7, KeepsOrderTrans
<1>. QED BY <1>7, <1>8 DEF A, B, C, D

-----------------------------------------------------------------------------
(* The invariant. *)

WakePhases == {"tickWake", "replayWake"}

(* The wake time of a task is its ticks left from now, wrapped once at most. *)
Timed(t) ==
  xItemValue[t] = IF xTickCount + ticksLeft[t] < TickCount
                  THEN xTickCount + ticksLeft[t]
                  ELSE xTickCount + ticksLeft[t] - TickCount

(* The list whose turn comes when the task's time does. *)
TurnList(t) == IF xTickCount + ticksLeft[t] < TickCount
               THEN pxDelayedTaskList ELSE pxOverflowDelayedTaskList

DelaysSorted == \A l \in DelayLists : Ordered(store.ring[l], xItemValue)

DelaysTimed ==
  \A t \in TCB : Delayed(t) => Timed(t) /\ store.generic[t] = TurnList(t)

(* A task that has computed its wake time, but is not in its delay list yet. *)
InsertTimed ==
  \A t \in TCB : pc[t] = "insert" => Timed(t) /\ ticksLeft[t] > 0

(* Only while the tick code is at work is there a task whose time has come. *)
NoneDue ==
  phase \notin WakePhases => \A t \in TCB : Delayed(t) => ticksLeft[t] > 0

(* Only a delayed task, or one about to be, has ticks left to wait. *)
TimersHeld == \A t \in TCB : ticksLeft[t] > 0 => Delayed(t) \/ pc[t] = "insert"

DelayInv ==
  ListsApart /\ DelaysSorted /\ DelaysTimed /\ InsertTimed /\ NoneDue
             /\ TimersHeld

-----------------------------------------------------------------------------
(* The steps on which no task gets a wake time and no time passes: most. *)

Stands ==
  /\ UNCHANGED <<xTickCount, pxDelayedTaskList, pxOverflowDelayedTaskList>>
  /\ KeepsOrder(store, store')
  /\ \A t \in TCB :
        store'.generic[t] \in DelayLists =>
          /\ store'.generic[t] = store.generic[t]
          /\ xItemValue'[t] = xItemValue[t] /\ ticksLeft'[t] = ticksLeft[t]
  /\ \A t \in TCB :
        pc'[t] = "insert" =>
          /\ pc[t] = "insert"
          /\ xItemValue'[t] = xItemValue[t] /\ ticksLeft'[t] = ticksLeft[t]
  /\ \A t \in TCB :
        ticksLeft'[t] > 0 =>
          /\ ticksLeft[t] > 0
          /\ store.generic[t] \in DelayLists => store'.generic[t] \in DelayLists
          /\ pc[t] = "insert" => pc'[t] = "insert"
  /\ phase \in WakePhases => phase' \in WakePhases

(* A sorted list is in order by the new values when it was by the old ones and
   those of its members are the same. *)
LEMMA SortedKept ==
  ASSUME Typed', StoreOK(store'), KeepsOrder(store, store'), DelaysSorted,
         \A t \in TCB : store'.generic[t] \in DelayLists =>
                          xItemValue'[t] = xItemValue[t]
  PROVE  DelaysSorted'
<1>. SUFFICES ASSUME NEW l \in DelayLists
              PROVE  Ordered(store'.ring[l], xItemValue')
  BY DEF DelaysSorted
<1>1. l \in GenericLists /\ l \in Lists /\ l \in SortedLists
  BY ListNames, ListsDisjoint DEF SortedLists
<1>2. Ordered(store'.ring[l], xItemValue)
  BY <1>1 DEF DelaysSorted, KeepsOrder
<1>3. store'.ring[l] \in Seq(TCB)
  BY <1>1 DEF Typed, Stores
<1>4. \A t \in TCB : Contains(store'.ring[l], t) => store'.generic[t] = l
  BY <1>1 DEF StoreOK
<1>. QED BY <1>2, <1>3, <1>4, OrderedSame

LEMMA StandsDelay ==
  ASSUME Typed', StoreInv', DelayInv, Stands
  PROVE  DelayInv'
<1>1. DelaysSorted'
  BY SortedKept DEF StoreInv, StoreConsistent, DelayInv, Stands
<1>2. DelaysTimed'
  BY DEF DelayInv, DelaysTimed, Timed, TurnList, Delayed, Stands
<1>3. InsertTimed'
  BY DEF DelayInv, InsertTimed, Timed, Stands
<1>4. NoneDue'
  BY DEF DelayInv, NoneDue, Delayed, Stands
<1>5. ListsApart'
  BY DEF DelayInv, ListsApart, Stands
<1>6. TimersHeld'
  BY DEF DelayInv, TimersHeld, Delayed, Stands
<1>. QED BY <1>1, <1>2, <1>3, <1>4, <1>5, <1>6 DEF DelayInv

(* What the lemmas below have in common. *)
Quiet ==
  /\ UNCHANGED <<xTickCount, pxDelayedTaskList, pxOverflowDelayedTaskList>>
  /\ \A t \in TCB : pc'[t] = "insert" <=> pc[t] = "insert"
  /\ phase \in WakePhases => phase' \in WakePhases

LEMMA StayedStands ==
  ASSUME Quiet, KeepsOrder(store, store'), store'.generic = store.generic,
         UNCHANGED delayVars
  PROVE  Stands
  BY DEF Quiet, Stands, delayVars

LEMMA UnlinkedNotInsert ==
  ASSUME StoreInv, NEW t \in TCB, store.generic[t] # NULL
  PROVE  pc[t] # "insert"
  BY DEF StoreInv, Placement, BetweenLists

(* A task goes elsewhere than to a delay list; its wake time is forgotten. *)
LEMMA MovedStands ==
  ASSUME Typed, StoreInv, Quiet, KeepsOrder(store, store'), NEW t, NEW l,
         Relinked(t, l), l \notin DelayLists,
         \/ UNCHANGED delayVars /\ ~Delayed(t)
         \/ EndDelay(t) /\ store.generic[t] # NULL
  PROVE  Stands
<1>1. t \in TCB
  BY DEF Relinked
<1>2. \A u \in TCB : u # t =>
        xItemValue'[u] = xItemValue[u] /\ ticksLeft'[u] = ticksLeft[u]
  BY <1>1 DEF EndDelay, delayVars, Typed
<1>3. pc'[t] = "insert" => UNCHANGED delayVars
  BY <1>1, UnlinkedNotInsert DEF Quiet
<1>4. \A u \in TCB : store'.generic[u] \in DelayLists =>
         u # t /\ store'.generic[u] = store.generic[u]
  BY DEF Relinked
<1>5. \A u \in TCB : ticksLeft'[u] > 0 =>
         /\ ticksLeft[u] > 0
         /\ store.generic[u] \in DelayLists => store'.generic[u] \in DelayLists
  <2>1. ticksLeft'[t] > 0 => UNCHANGED delayVars /\ ~Delayed(t)
    BY <1>1 DEF EndDelay, Typed
  <2>. QED BY <1>1, <1>2, <2>1 DEF Relinked, Delayed, delayVars
<1>. QED BY <1>1, <1>2, <1>3, <1>4, <1>5 DEF Quiet, Stands, delayVars

(* A task goes on to another point. *)
LEMMA GotoQuiet ==
  ASSUME Typed, NEW t \in TCB, NEW point, Goto(t, point), point # "insert",
         pc[t] # "insert",
         UNCHANGED <<xTickCount, pxDelayedTaskList, pxOverflowDelayedTaskList>>,
         UNCHANGED phase
  PROVE  Quiet
  BY DEF Goto, Quiet, Typed

(* xTaskRemoveFromEventList. *)
LEMMA SignalStands ==
  ASSUME Typed, LockInv, StoreInv, Quiet, phase = "run", NEW e \in Event,
         HasWaiter(e), RemoveFromEventList(e), UNCHANGED taskVars
  PROVE  Stands
<1> DEFINE t == OwnerOfHead(store, EventList(e))
<1>1. /\ t \in TCB
      /\ IF uxSchedulerSuspended = 0 THEN Readied(t) ELSE Stayed
  BY SignalEffect
<1>2. /\ uxPriority[t] \in Priority
      /\ pxReadyTasksLists(uxPriority[t]) \in GenericLists \ DelayLists
      /\ xSuspendedTaskList \in GenericLists \ DelayLists
      /\ store \in Stores
  BY <1>1, ListNames DEF Typed
<1>. HIDE DEF t
<1>3. CASE uxSchedulerSuspended = 0
  <2>1. /\ store' = InsertEndGeneric(RemoveGeneric(RemoveEvent(store, t), t),
                                     pxReadyTasksLists(uxPriority[t]), t)
        /\ EndDelay(t)
    BY <1>3 DEF RemoveFromEventList, ListsAccessible, AddTaskToReadyQueue, t
  <2>2. KeepsOrder(store, store')
    BY <1>1, <1>2, <2>1, MoveKeepsOrder
  <2>3. /\ Relinked(t, pxReadyTasksLists(uxPriority[t]))
        /\ Blocked(t)
    BY <1>1, <1>3 DEF Readied
  <2>4. store.generic[t] # NULL
    BY <2>3, ListNames, ListsDisjoint DEF Blocked, Delayed
  <2>. QED BY <1>2, <2>1, <2>2, <2>3, <2>4, MovedStands
<1>4. CASE uxSchedulerSuspended # 0
  <2>1. /\ store' = InsertEndEvent(RemoveEvent(store, t), xPendingReadyList, t)
        /\ UNCHANGED delayVars
    BY <1>4 DEF RemoveFromEventList, ListsAccessible, t
  <2>2. KeepsOrder(store, store')
    BY <1>1, <1>2, <2>1, MoveKeepsOrder
  <2>. QED BY <1>1, <1>4, <2>1, <2>2, StayedStands DEF Stayed
<1>. QED BY <1>3, <1>4

LEMMA ReadiedStands ==
  ASSUME Typed, StoreInv, Quiet, KeepsOrder(store, store'), NEW t, Readied(t),
         \/ UNCHANGED delayVars /\ ~Delayed(t)
         \/ EndDelay(t)
  PROVE  Stands
<1>1. t \in TCB /\ store.generic[t] # NULL
  BY ListNames, ListsDisjoint DEF Readied, Relinked, Blocked, Delayed
<1>2. pxReadyTasksLists(uxPriority[t]) \notin DelayLists
  BY <1>1, ListNames DEF Typed
<1>. QED BY <1>1, <1>2, MovedStands DEF Readied

LEMMA CallStepStands ==
  ASSUME Typed, LockInv, StoreInv, NEW t \in TCB, CallStep(t),
         pc[t] \notin {"delay", "until", "insert", "place", "placeInsert"}
  PROVE  Stands
<1>. USE DEF tickVars, listVars, taskVars, suspendVars, loopVars, runVars
<1>1. CASE YieldWithinAPI(t)
  <2>1. Quiet
    BY <1>1, GotoQuiet DEF YieldWithinAPI, RequestSwitch, RunsAt
  <2>. QED BY <1>1, <2>1, StayedStands, SameRingsKeepOrder
           DEF YieldWithinAPI, RequestSwitch
<1>2. CASE PlaceUnlink(t)
  <2>1. /\ Runs(t) /\ pc[t] = "placeGeneric"
        /\ store' = RemoveGeneric(store, t)
        /\ Goto(t, "placeInsert")
        /\ UNCHANGED <<delayVars, xTickCount, pxDelayedTaskList,
                       pxOverflowDelayedTaskList, phase>>
    BY <1>2 DEF PlaceUnlink, RunsAt
  <2>2. Quiet
    BY <2>1, GotoQuiet
  <2>3. store.generic[t] \in ReadyLists
    BY <2>1, RunningTask
  <2>4. store.generic[t] # NULL /\ NULL \notin DelayLists /\ ~Delayed(t)
    BY <2>3, ListNames, ListsDisjoint DEF Delayed
  <2>5. store'.generic = [store.generic EXCEPT ![t] = NULL]
    BY <2>1, <2>4, RemoveGenericOK DEF Typed, StoreInv, StoreConsistent
  <2>6. Relinked(t, NULL)
    BY <2>5 DEF Relinked, Typed, Stores
  <2>7. KeepsOrder(store, store')
    BY <2>1, RemoveKeepsOrder DEF Typed
  <2>. QED BY <2>1, <2>2, <2>4, <2>6, <2>7, MovedStands
<1>3. CASE QueueUnlock(t)
  <2>1. Quiet /\ phase = "run"
    BY <1>3, GotoQuiet DEF QueueUnlock, RunsAt, Runs, InterruptsEnabled
  <2>2. CASE UNCHANGED <<listVars, delayVars>>
    BY <2>1, <2>2, StayedStands, SameRingsKeepOrder
  <2>3. ASSUME NEW e \in Event, HasWaiter(e), RemoveFromEventList(e)
        PROVE  Stands
    BY <1>3, <2>1, <2>3, SignalStands DEF QueueUnlock
  <2>. QED BY <1>3, <2>2, <2>3 DEF QueueUnlock
<1>4. CASE ResumeAll(t)
  <2>1. pc' = pc \/ Goto(t, AfterResumeAll(pc[t], FALSE))
    BY <1>4 DEF ResumeAll
  <2>2. AfterResumeAll(pc[t], FALSE) # "insert"
    BY AfterResumeAllType
  <2>3. \A u \in TCB : pc'[u] = "insert" <=> pc[u] = "insert"
    BY <1>4, <2>1, <2>2 DEF Goto, Typed, ResumeAll, RunsApp, RunsAt
  <2>4. Quiet
    BY <1>4, <2>3
       DEF ResumeAll, Runs, InterruptsEnabled, WakePhases, Quiet
  <2>. QED BY <1>4, <2>4, StayedStands, SameRingsKeepOrder DEF ResumeAll
<1>. QED BY <1>1, <1>2, <1>3, <1>4
         DEF CallStep, DelayUnlink, UntilDecide, DelayInsert, PlaceEventItem,
             PlaceInsert, RunsAt

(* xTaskGenericCreate. *)
LEMMA CreateKeepsOrder ==
  ASSUME Typed, NEW t \in TCB, NEW p \in RequestedPriority, Create(t, p)
  PROVE  KeepsOrder(store, store')
<1> DEFINE first == pxCurrentTCB = NULL /\ uxCurrentNumberOfTasks + 1 = 1
           L == IF first THEN EmptyStore ELSE store
           l == pxReadyTasksLists(Capped(p))
<1>1. L \in Stores
  BY EmptyStoreType DEF Typed
<1>2. Capped(p) \in Priority
  BY CappedType, PrioritiesAssumption DEF RequestedPriority
<1>3. l \in GenericLists \ DelayLists
  BY <1>2, ListNames
<1>4. store' = InsertEndGeneric(L, l, t)
  BY DEF Create, AddTaskToReadyQueue
<1>5. KeepsOrder(store, L)
  BY EmptyKeepsOrder, SameRingsKeepOrder
<1>. HIDE DEF L, l
<1>6. KeepsOrder(L, store')
  BY <1>1, <1>3, <1>4, MoveKeepsOrder
<1>. QED BY <1>5, <1>6, KeepsOrderTrans

LEMMA CallStands ==
  ASSUME Typed, LockInv, StoreInv, NEW c \in Task, Call(c)
  PROVE  Stands
<1>. USE DEF tickVars, listVars, taskVars, suspendVars, loopVars, runVars
<1>0. /\ c \in TCB /\ store \in Stores
      /\ phase = "run" /\ Runs(c) /\ pc[c] = "app"
  BY DEF Call, CreateTask, AppSuspendAll, TaskYield, DelayZero, DelaySuspend,
         DelayUntilSuspend, QueueSuspend, TaskSignals, SuspendTask, ResumeTask,
         DeleteTask, PrioritySet, MayBlock, RunsApp, RunsAt, Runs,
         InterruptsEnabled, TCB, Typed
<1>1. ASSUME NEW t \in Task, NEW p \in RequestedPriority, CreateTask(c, t, p)
      PROVE  Stands
  <2>1. t \in TCB /\ Create(t, p)
    BY <1>1 DEF TCB, CreateTask
  <2>2. PICK q \in Priority : q = uxPriority'[t]
    BY <2>1, CreateStore DEF StoreInv, CurrentAllocated, FirstFound
  <2>3. Relinked(t, pxReadyTasksLists(q))
    BY <2>1, <2>2, CreateEffect
       DEF StoreInv, CurrentAllocated, FirstFound, Created
  <2>4. pxReadyTasksLists(q) \notin DelayLists
    BY ListNames
  <2>5. KeepsOrder(store, store')
    BY <2>1, CreateKeepsOrder
  <2>6. pxCurrentTCB # NULL
    BY <1>0, NullAssumption DEF Runs, TCB
  <2>7. UNCHANGED <<delayVars, xTickCount, pxDelayedTaskList,
                    pxOverflowDelayedTaskList, phase>>
    BY <1>1, <2>6 DEF CreateTask, Create
  <2>8. \A u \in TCB : pc'[u] = "insert" <=> pc[u] = "insert"
    <3>1. pc[c] # "insert" /\ pc[t] # "insert"
      BY <1>0, <2>1, RunningTask DEF BetweenLists
    <3>. QED BY <1>0, <1>1, <2>1, <3>1 DEF CreateTask, Typed
  <2>9. Quiet
    BY <2>7, <2>8 DEF Quiet
  <2>10. ~Delayed(t)
    BY <2>1, ListNames, ListsDisjoint
       DEF Create, StoreInv, Placement, Delayed
  <2>. QED BY <2>3, <2>4, <2>5, <2>7, <2>9, <2>10, MovedStands
<1>2. ASSUME UNCHANGED <<store, delayVars>>, Quiet
      PROVE  Stands
  BY <1>2, StayedStands, SameRingsKeepOrder
<1>3. CASE \/ AppSuspendAll(c) \/ TaskYield(c) \/ DelayZero(c)
           \/ DelaySuspend(c) \/ DelayUntilSuspend(c)
           \/ \E e \in Event : QueueSuspend(c, e)
  <2>1. /\ UNCHANGED <<store, delayVars, xTickCount, pxDelayedTaskList,
                       pxOverflowDelayedTaskList, phase>>
        /\ \E point \in {"app", "yield", "delay", "until", "place"} :
              Goto(c, point)
    BY <1>3 DEF AppSuspendAll, TaskYield, RequestSwitch, DelayZero,
                DelaySuspend, DelayUntilSuspend, QueueSuspend, SuspendAll
  <2>2. Quiet
    BY <1>0, <2>1, GotoQuiet
  <2>. QED BY <1>2, <2>1, <2>2
<1>4. ASSUME NEW e \in Event, TaskSignals(c, e)
      PROVE  Stands
  <2>1. Quiet
    BY <1>4 DEF TaskSignals, Quiet
  <2>. QED BY <1>0, <1>4, <2>1, SignalStands DEF TaskSignals
<1>5. ASSUME NEW t \in Task, t \in Live,
             NEW l \in {xSuspendedTaskList, xTasksWaitingTermination},
             store' = InsertEndGeneric(
                        RemoveEventIfLinked(RemoveGeneric(store, t), t), l, t),
             EndDelay(t), Quiet
      PROVE  Stands
  <2>1. t \in TCB /\ t \in allocated /\ ~BetweenLists(t)
    BY <1>0, <1>5, RunningTask DEF BetweenLists, Live, Typed
  <2>2. l \in GenericLists \ DelayLists
    BY <1>5, ListNames
  <2>3. Relinked(t, l) /\ store.generic[t] # NULL
    BY <1>5, <2>1, <2>2, MoveEffect, InOneList DEF StoreInv
  <2>4. KeepsOrder(store, store')
    BY <1>0, <1>5, <2>1, <2>2, MoveKeepsOrder
  <2>. QED BY <1>5, <2>2, <2>3, <2>4, MovedStands
<1>6. ASSUME NEW t \in Task, SuspendTask(c, t)
      PROVE  Stands
  <2>1. Quiet
    BY <1>0, <1>6, GotoQuiet DEF SuspendTask
  <2>. QED BY <1>5, <1>6, <2>1 DEF SuspendTask
<1>7. ASSUME NEW t \in Task, DeleteTask(c, t)
      PROVE  Stands
  <2>1. Quiet
    BY <1>0, <1>7, GotoQuiet DEF DeleteTask
  <2>. QED BY <1>5, <1>7, <2>1 DEF DeleteTask, Terminate
<1>8. ASSUME NEW t \in TCB, NEW p \in Priority,
             AddTaskToReadyQueue(RemoveGeneric(store, t), t, p)
      PROVE  KeepsOrder(store, store')
  <2>1. pxReadyTasksLists(p) \in GenericLists \ DelayLists
    BY ListNames
  <2>. QED BY <1>0, <1>8, <2>1, MoveKeepsOrder DEF AddTaskToReadyQueue
<1>9. ASSUME NEW t \in Task, ResumeTask(c, t)
      PROVE  Stands
  <2>1. t \in TCB /\ Readied(t) /\ uxPriority[t] \in Priority
    BY <1>9, ResumeEffect DEF StoreInv, ResumeTask, Live, Typed
  <2>2. Quiet /\ KeepsOrder(store, store')
    BY <1>8, <1>9, <2>1 DEF ResumeTask, Quiet
  <2>3. ~Delayed(t)
    BY <1>9, ListNames DEF ResumeTask, IsTaskSuspended, Delayed
  <2>. QED BY <1>9, <2>1, <2>2, <2>3, ReadiedStands DEF ResumeTask
<1>10. ASSUME NEW t \in Task, NEW p \in RequestedPriority, PrioritySet(c, t, p)
       PROVE  Stands
  <2>1. Quiet /\ UNCHANGED delayVars
    BY <1>10 DEF PrioritySet, Quiet
  <2>2. CASE UNCHANGED listVars
    BY <1>2, <2>1, <2>2
  <2>3. CASE AddTaskToReadyQueue(RemoveGeneric(store, t), t, Capped(p))
    <3>1. t \in TCB /\ Capped(p) \in Priority
      BY CappedType, PrioritiesAssumption DEF RequestedPriority, TCB
    <3>2. KeepsOrder(store, store')
      BY <1>8, <2>3, <3>1
    <3>3. Reprioritised(t) \/ Stayed
      BY <1>10, PrioritySetEffect
    <3>4. CASE Stayed
      BY <2>1, <3>2, <3>4, StayedStands DEF Stayed
    <3>5. CASE Reprioritised(t)
      <4>1. uxPriority'[t] = Capped(p)
        BY <1>10, <3>1 DEF PrioritySet, Typed
      <4>2. Relinked(t, pxReadyTasksLists(Capped(p)))
        BY <3>5, <4>1 DEF Reprioritised
      <4>3. pxReadyTasksLists(Capped(p)) \notin DelayLists
        BY <3>1, ListNames
      <4>4. ~Delayed(t)
        BY <3>1, <3>5, ListNames DEF Reprioritised, Delayed, Typed
      <4>. QED BY <2>1, <3>2, <4>2, <4>3, <4>4, MovedStands
    <3>. QED BY <3>3, <3>4, <3>5
  <2>. QED BY <1>10, <2>2, <2>3 DEF PrioritySet
<1>. QED BY <1>1, <1>3, <1>4, <1>6, <1>7, <1>9, <1>10 DEF Call

LEMMA IdleStands ==
  ASSUME Typed, LockInv, StoreInv, IdleStep
  PROVE  Stands
<1>. USE DEF tickVars, listVars, taskVars, suspendVars, loopVars, runVars
<1>1. Quiet
  <2>1. \E point \in CallPoints \ {"insert"} : Goto(Idle, point)
    BY DEF IdleStep, IdleSuspend, SuspendAll, IdleReadList, IdleReap, Reap,
           IdleLoop, CallPoints, Windows
  <2>2. UNCHANGED <<xTickCount, pxDelayedTaskList, pxOverflowDelayedTaskList,
                    phase>>
    BY DEF IdleStep, IdleSuspend, SuspendAll, IdleReadList, IdleReap,
           Reap, IdleLoop
  <2>3. Idle \in TCB
    BY DEF TCB
  <2>4. pc[Idle] # "insert"
    BY DEF IdleStep, IdleSuspend, IdleReadList, IdleReap, Reap, IdleLoop, RunsAt
  <2>. QED BY <2>1, <2>2, <2>3, <2>4, GotoQuiet
<1>2. CASE IdleSuspend \/ IdleReadList \/ IdleLoop
  <2>1. UNCHANGED <<store, delayVars>>
    BY <1>2 DEF IdleSuspend, SuspendAll, IdleReadList, IdleLoop
  <2>. QED BY <1>1, <2>1, StayedStands, SameRingsKeepOrder
<1>3. CASE IdleReap
  <2> DEFINE t == OwnerOfHead(store, xTasksWaitingTermination)
  <2>1. Relinked(t, NULL) /\ NULL \notin DelayLists /\ store \in Stores
    BY <1>3, ReapEffect, ListNames, ListsDisjoint DEF Reaped, Typed
  <2>2. store' = RemoveGeneric(store, t) /\ UNCHANGED delayVars
    BY <1>3 DEF IdleReap, Reap
  <2>. HIDE DEF t
  <2>3. KeepsOrder(store, store')
    BY <2>1, <2>2, RemoveKeepsOrder DEF Relinked
  <2>4. ~Delayed(t)
    BY <1>3, ReapEffect, ListNames DEF Reaped, Delayed, t
  <2>. QED BY <1>1, <2>1, <2>2, <2>3, <2>4, MovedStands
<1>. QED BY <1>2, <1>3 DEF IdleStep

(* The loops but for the ends of the tick code, and the ticks themselves. *)
LEMMA MaskedStands ==
  ASSUME Typed, LockInv, StoreInv,
         DrainPending \/ DrainDone \/ ResumeAllDone \/ WakeHead
  PROVE  Stands
<1>. USE DEF tickVars, listVars, taskVars, suspendVars, loopVars, runVars
<1>1. Quiet
  <2>1. CASE ResumeAllDone
    <3>1. PICK yields : Goto(pxCurrentTCB,
                             AfterResumeAll(pc[pxCurrentTCB], yields))
      BY <2>1 DEF ResumeAllDone
    <3>2. AfterResumeAll(pc[pxCurrentTCB], yields) # "insert"
      BY AfterResumeAllType
    <3>3. \A t \in TCB : pc'[t] = "insert" <=> pc[t] = "insert"
      BY <2>1, <3>1, <3>2
         DEF Goto, Typed, ResumeAllDone, StoreInv, LoopCaller
    <3>. QED BY <2>1, <3>3 DEF ResumeAllDone, Quiet, WakePhases
  <2>2. CASE DrainPending \/ DrainDone \/ WakeHead
    BY <2>2 DEF DrainPending, DrainDone, WakeHead, Quiet, WakePhases
  <2>. QED BY <2>1, <2>2
<1>2. CASE DrainDone \/ ResumeAllDone
  <2>1. UNCHANGED <<store, delayVars>>
    BY <1>2 DEF DrainDone, ResumeAllDone
  <2>. QED BY <1>1, <2>1, StayedStands, SameRingsKeepOrder
<1>3. ASSUME NEW t, Readied(t)
      PROVE  /\ t \in TCB
             /\ pxReadyTasksLists(uxPriority[t]) \in GenericLists \ DelayLists
             /\ store \in Stores
  BY <1>3, ListNames DEF Readied, Relinked, Typed
<1>4. CASE DrainPending
  <2> DEFINE t == OwnerOfHead(store, xPendingReadyList)
  <2>1. Readied(t)
    BY <1>4, DrainEffect
  <2>2. /\ store' = InsertEndGeneric(RemoveGeneric(RemoveEvent(store, t), t),
                                     pxReadyTasksLists(uxPriority[t]), t)
        /\ EndDelay(t)
    BY <1>4 DEF DrainPending, AddTaskToReadyQueue
  <2>. HIDE DEF t
  <2>3. KeepsOrder(store, store')
    BY <1>3, <2>1, <2>2, MoveKeepsOrder
  <2>. QED BY <1>1, <2>1, <2>2, <2>3, ReadiedStands
<1>5. CASE WakeHead
  <2> DEFINE t == OwnerOfHead(store, pxDelayedTaskList)
  <2>1. Readied(t)
    BY <1>5, WakeEffect
  <2>2. /\ store' = InsertEndGeneric(
                      RemoveEventIfLinked(RemoveGeneric(store, t), t),
                      pxReadyTasksLists(uxPriority[t]), t)
        /\ EndDelay(t)
    BY <1>5 DEF WakeHead, AddTaskToReadyQueue
  <2>. HIDE DEF t
  <2>3. KeepsOrder(store, store')
    BY <1>3, <2>1, <2>2, MoveKeepsOrder
  <2>. QED BY <1>1, <2>1, <2>2, <2>3, ReadiedStands
<1>. QED BY <1>2, <1>4, <1>5

LEMMA InterruptStands ==
  ASSUME Typed, LockInv, StoreInv, Cached,
         TickInterruptMissed \/ OtherISR \/ Switch
  PROVE  Stands
<1>. USE DEF tickVars, listVars, taskVars, suspendVars, loopVars, runVars
<1>1. Quiet
  BY DEF TickInterruptMissed, OtherISR, ResumeFromISR, InterruptSignals,
         InterruptSignalsLocked, Switch, SwitchMissed, SwitchContext, Quiet
<1>2. CASE \/ TickInterruptMissed \/ SwitchMissed
           \/ \E e \in Event : InterruptSignalsLocked(e)
  <2>1. UNCHANGED <<store, delayVars>>
    BY <1>2 DEF TickInterruptMissed, SwitchMissed, InterruptSignalsLocked
  <2>. QED BY <1>1, <2>1, StayedStands, SameRingsKeepOrder
<1>3. ASSUME NEW t \in Task, ResumeFromISR(t)
      PROVE  Stands
  <2>1. /\ t \in TCB /\ store \in Stores /\ UNCHANGED delayVars
        /\ IF uxSchedulerSuspended = 0 THEN Readied(t) ELSE Stayed
    BY <1>3, ResumeFromISREffect DEF ResumeFromISR, TCB, Typed
  <2>2. /\ pxReadyTasksLists(uxPriority[t]) \in GenericLists \ DelayLists
        /\ xPendingReadyList \in Lists \ SortedLists
    BY <2>1, ListNames, ListsDisjoint, SortedListNames DEF Typed
  <2>3. KeepsOrder(store, store')
    <3>1. CASE uxSchedulerSuspended = 0
      BY <1>3, <2>1, <2>2, <3>1, MoveKeepsOrder
         DEF ResumeFromISR, ListsAccessible, AddTaskToReadyQueue
    <3>2. CASE uxSchedulerSuspended # 0
      BY <1>3, <2>1, <2>2, <3>2, InsertEndKeepsOrder
         DEF ResumeFromISR, ListsAccessible
    <3>. QED BY <3>1, <3>2
  <2>4. ~Delayed(t)
    BY <1>3, ListNames DEF ResumeFromISR, IsTaskSuspended, Delayed
  <2>. QED BY <1>1, <2>1, <2>3, <2>4, ReadiedStands, StayedStands DEF Stayed
<1>4. ASSUME NEW e \in Event, InterruptSignals(e)
      PROVE  Stands
  BY <1>1, <1>4, SignalStands DEF InterruptSignals, InterruptsEnabled
<1>5. CASE SwitchContext
  <2>1. PICK p \in Priority : store' = NextEntry(store, pxReadyTasksLists(p))
    BY <1>5, PrioritiesAssumption DEF SwitchContext, Typed, Priority
  <2>2. pxReadyTasksLists(p) \in Lists \ SortedLists /\ Idle \in TCB
    BY ListNames, ListsDisjoint, SortedListNames DEF TCB
  <2>3. KeepsOrder(store, store')
    BY <2>1, <2>2, InsertEndKeepsOrder DEF Typed
  <2>4. store'.generic = store.generic /\ UNCHANGED delayVars
    BY <1>5, SwitchEffect DEF Searched, SwitchContext
  <2>. QED BY <1>1, <2>3, <2>4, StayedStands
<1>. QED BY <1>2, <1>3, <1>4, <1>5 DEF OtherISR, Switch

-----------------------------------------------------------------------------
(* The other steps: the start, a task on its way into a delay list, and the
   tick. *)

(* The sum of two tick counts wraps once at most. *)
LEMMA WrapOnce ==
  ASSUME NEW m \in Tick, NEW k \in Tick
  PROVE  (m + k) % TickCount = IF m + k < TickCount THEN m + k
                               ELSE m + k - TickCount
<1>1. m \in Nat /\ k \in Nat /\ TickCount \in Nat
  BY CountAssumption DEF Tick
<1>2. PICK n \in Nat : n = m + k /\ n < 2 * TickCount
  BY CountAssumption DEF Tick
<1>3. n % TickCount = IF n < TickCount THEN n ELSE n - TickCount
  BY <1>2, TickArithmetic, CountAssumption
<1>. QED BY <1>1, <1>2, <1>3

(* Before the scheduler starts there is nobody to wake. *)
LEMMA BootDelay ==
  ASSUME Typed, LockInv, StoreInv, DelayInv, Boot, Typed', StoreInv'
  PROVE  DelayInv'
<1>1. PICK t \in TCB, p \in RequestedPriority : Create(t, p)
  BY PrioritiesAssumption
     DEF Boot, CreateBeforeStart, StartScheduler, TCB, RequestedPriority
<1>2. ~xSchedulerRunning /\ pc' = pc
  BY DEF Boot, CreateBeforeStart, StartScheduler
<1>3. \A u \in TCB : store'.generic[u] \notin DelayLists
  <2>1. PICK q \in Priority : q = uxPriority'[t]
    BY <1>1, CreateStore DEF StoreInv, CurrentAllocated, FirstFound
  <2>2. Relinked(t, pxReadyTasksLists(q))
    BY <1>1, <2>1, CreateEffect
       DEF StoreInv, CurrentAllocated, FirstFound, Created
  <2>3. ASSUME NEW u \in TCB
        PROVE  store.generic[u] \in ReadyLists \cup {NULL}
    <3>1. CASE u \in allocated
      BY <1>2, <3>1 DEF StoreInv, ReadyBeforeStart
    <3>2. CASE u \notin allocated
      BY <3>2 DEF StoreInv, Placement
    <3>. QED BY <3>1, <3>2
  <2>. QED BY <2>2, <2>3, ListNames, ListsDisjoint DEF Relinked
<1>4. KeepsOrder(store, store')
  BY <1>1, CreateKeepsOrder
<1>5. DelaysSorted'
  BY <1>3, <1>4, SortedKept DEF StoreInv, StoreConsistent, DelayInv
<1>6. DelaysTimed' /\ NoneDue'
  BY <1>3 DEF DelaysTimed, NoneDue, Delayed
<1>7. InsertTimed'
  BY <1>2 DEF InsertTimed, LockInv, QuietBeforeStart
<1>8. ListsApart'
  BY <1>1 DEF Create, DelayInv, ListsApart, xDelayedTaskList1,
              xDelayedTaskList2
<1>9. TimersHeld'
  <2>1. \A u \in TCB : pc[u] # "insert"
    BY <1>2 DEF LockInv, QuietBeforeStart
  <2>2. \A u \in TCB : ~Delayed(u)
    <3>1. ASSUME NEW u \in TCB
          PROVE  store.generic[u] \in ReadyLists \cup {NULL}
      BY <1>2 DEF StoreInv, ReadyBeforeStart, Placement
    <3>. QED BY <3>1, ListNames, ListsDisjoint DEF Delayed
  <2>3. UNCHANGED ticksLeft
    BY <1>1 DEF Create, delayVars
  <2>. QED BY <2>1, <2>2, <2>3 DEF DelayInv, TimersHeld
<1>. QED BY <1>5, <1>6, <1>7, <1>8, <1>9 DEF DelayInv

(* A task takes itself off its ready list, and notes when it is to wake. *)
LEMMA UnlinkDelay ==
  ASSUME Typed, LockInv, StoreInv, DelayInv, Typed', StoreInv',
         NEW t \in TCB, Runs(t), pc[t] \in {"delay", "until"},
         NEW wake, NEW left \in Tick \ {0}, UnlinkToWakeAt(t, wake, left),
         wake = IF xTickCount + left < TickCount THEN xTickCount + left
                ELSE xTickCount + left - TickCount,
         UNCHANGED <<xTickCount, pxDelayedTaskList, pxOverflowDelayedTaskList,
                     phase>>
  PROVE  DelayInv' /\ KeepsOrder(store, store')
<1>1. /\ store' = RemoveGeneric(store, t)
      /\ \A u \in TCB : u # t => /\ xItemValue'[u] = xItemValue[u]
                                 /\ ticksLeft'[u] = ticksLeft[u]
                                 /\ pc'[u] = pc[u]
      /\ xItemValue'[t] = wake /\ ticksLeft'[t] = left
  BY DEF UnlinkToWakeAt, Goto, Typed
<1>2. store.generic[t] \in ReadyLists /\ phase = "run"
  BY RunningTask
<1>3. store.generic[t] # NULL /\ NULL \notin DelayLists
  BY <1>2, ListNames, ListsDisjoint
<1>4. store'.generic = [store.generic EXCEPT ![t] = NULL]
  BY <1>1, <1>3, RemoveGenericOK DEF Typed, StoreInv, StoreConsistent
<1>5. \A u \in TCB : store'.generic[u] \in DelayLists =>
         u # t /\ store'.generic[u] = store.generic[u]
  BY <1>3, <1>4 DEF Typed, Stores
<1>6. KeepsOrder(store, store')
  BY <1>1, RemoveKeepsOrder DEF Typed
<1>7. DelaysSorted'
  BY <1>1, <1>5, <1>6, SortedKept DEF StoreInv, StoreConsistent, DelayInv
<1>8. DelaysTimed' /\ NoneDue'
  BY <1>1, <1>2, <1>5
     DEF DelayInv, DelaysTimed, NoneDue, Delayed, Timed, TurnList, WakePhases
<1>9. InsertTimed'
  <2>1. Timed(t)' /\ ticksLeft'[t] > 0
    BY <1>1 DEF Timed, Tick
  <2>. QED BY <1>1, <2>1 DEF DelayInv, InsertTimed, Timed
<1>10. TimersHeld'
  <2>1. pc'[t] = "insert"
    BY DEF UnlinkToWakeAt, Goto, Typed
  <2>2. \A u \in TCB : u # t => store'.generic[u] = store.generic[u]
    BY <1>4 DEF Typed, Stores
  <2>. QED BY <1>1, <2>1, <2>2 DEF DelayInv, TimersHeld, Delayed
<1>. QED BY <1>6, <1>7, <1>8, <1>9, <1>10 DEF DelayInv, ListsApart

LEMMA UnlinkStepDelay ==
  ASSUME Typed, LockInv, StoreInv, DelayInv, Typed', StoreInv',
         NEW t \in TCB, DelayUnlink(t) \/ UntilDecide(t)
  PROVE  DelayInv' /\ KeepsOrder(store, store')
<1>. USE DEF tickVars, loopVars, runVars
<1>1. /\ Runs(t) /\ pc[t] \in {"delay", "until"} /\ phase = "run"
      /\ UNCHANGED <<xTickCount, pxDelayedTaskList, pxOverflowDelayedTaskList,
                     phase>>
  BY DEF DelayUnlink, UntilDecide, RunsAt, Runs, InterruptsEnabled
<1>2. CASE DelayUnlink(t)
  <2>1. PICK xTicksToDelay \in Tick \ {0} :
           UnlinkToWakeAt(t, (xTickCount + xTicksToDelay) % TickCount,
                          xTicksToDelay)
    BY <1>2 DEF DelayUnlink
  <2> DEFINE wake == (xTickCount + xTicksToDelay) % TickCount
  <2>2. wake = IF xTickCount + xTicksToDelay < TickCount
               THEN xTickCount + xTicksToDelay
               ELSE xTickCount + xTicksToDelay - TickCount
    BY WrapOnce DEF Typed
  <2>3. UnlinkToWakeAt(t, wake, xTicksToDelay)
    BY <2>1
  <2>. HIDE DEF wake
  <2>. QED BY <1>1, <2>2, <2>3, UnlinkDelay
<1>3. CASE UntilDecide(t)
  <2>1. PICK age \in Tick, xTimeIncrement \in Tick \ {0} :
           LET previous == (xTickCount + TickCount - age) % TickCount
               wake == (previous + xTimeIncrement) % TickCount
           IN  IF ShouldDelay(previous, wake, xTickCount)
               THEN UnlinkToWakeAt(t, wake, xTimeIncrement - age)
               ELSE /\ Goto(t, "resume")
                    /\ UNCHANGED <<store, delayVars>>
    BY <1>3 DEF UntilDecide
  <2> DEFINE previous == (xTickCount + TickCount - age) % TickCount
             wake == (previous + xTimeIncrement) % TickCount
             left == xTimeIncrement - age
  <2>2. CASE ShouldDelay(previous, wake, xTickCount)
    <3>1. UnlinkToWakeAt(t, wake, left)
      BY <2>1, <2>2
    <3>2. /\ left \in Tick \ {0}
          /\ wake = IF xTickCount + left < TickCount THEN xTickCount + left
                    ELSE xTickCount + left - TickCount
      BY <2>2, UntilTicksLeft DEF Typed
    <3>. HIDE DEF wake, left
    <3>. QED BY <1>1, <3>1, <3>2, UnlinkDelay
  <2>3. CASE ~ShouldDelay(previous, wake, xTickCount)
    <3>1. Goto(t, "resume") /\ UNCHANGED <<store, delayVars>>
      BY <2>1, <2>3
    <3>2. Quiet
      BY <1>1, <3>1, GotoQuiet
    <3>3. Stands
      BY <3>1, <3>2, StayedStands, SameRingsKeepOrder
    <3>. QED BY <3>3, StandsDelay DEF Stands
  <2>. QED BY <2>2, <2>3
<1>. QED BY <1>2, <1>3

(* A task in no list goes into the delay list of its wake time. *)
LEMMA InsertDelay ==
  ASSUME Typed, StoreInv, DelayInv, Typed', StoreInv',
         NEW t \in TCB, store.generic[t] = NULL,
         Timed(t)', ticksLeft'[t] > 0, phase = "run", pc'[t] # "insert",
         \A u \in TCB : u # t => /\ xItemValue'[u] = xItemValue[u]
                                 /\ ticksLeft'[u] = ticksLeft[u]
                                 /\ pc'[u] = pc[u],
         NEW l \in DelayLists, l = TurnList(t)', NEW value,
         value = xItemValue', store' = InsertGeneric(store, l, value, t),
         UNCHANGED <<xTickCount, pxDelayedTaskList, pxOverflowDelayedTaskList,
                     phase>>
  PROVE  DelayInv'
<1>1. /\ store'.generic = [store.generic EXCEPT ![t] = l]
      /\ l \in GenericLists /\ NULL \notin DelayLists
  BY InsertGenericOK, ListNames, ListsDisjoint
     DEF Typed, StoreInv, StoreConsistent
<1>2. \A u \in TCB : store'.generic[u] = IF u = t THEN l ELSE store.generic[u]
  BY <1>1 DEF Typed, Stores
<1>3. ASSUME NEW k \in DelayLists
      PROVE  Ordered(store'.ring[k], value)
  <2>1. /\ k \in GenericLists /\ k \in Lists
        /\ store.ring[k] \in Seq(TCB) /\ value \in [TCB -> Int]
    BY ListNames, ListsDisjoint, SMTT(30) DEF Typed, Stores, Tick
  <2>2. \A u \in TCB : Contains(store.ring[k], u) => store.generic[u] = k
    BY <2>1 DEF StoreInv, StoreConsistent, StoreOK
  <2>3. \A u \in TCB : Contains(store.ring[k], u) => value[u] = xItemValue[u]
    BY <1>1, <2>2
  <2>4. Ordered(store.ring[k], value)
    <3>1. Ordered(store.ring[k], xItemValue)
      BY DEF DelayInv, DelaysSorted
    <3>2. store.ring[k] \in Seq(TCB)
      BY <2>1
    <3>. QED BY <2>3, <3>1, <3>2, OrderedSame
  <2>5. Ordered(ViewInsert(store.ring[k], value, t), value)
    BY <2>1, <2>4, ViewInsertOrdered
  <2>6. store'.ring[k] = IF k = l THEN ViewInsert(store.ring[k], value, t)
                         ELSE store.ring[k]
    BY <2>1 DEF InsertGeneric, Typed, Stores
  <2>. QED BY <2>4, <2>5, <2>6
<1>4. DelaysSorted'
  BY <1>3 DEF DelaysSorted
<1>5. ASSUME NEW u \in TCB, store'.generic[u] \in DelayLists
      PROVE  /\ Timed(u)' /\ store'.generic[u] = TurnList(u)'
             /\ ticksLeft'[u] > 0
  <2>1. CASE u = t
    BY <1>2, <2>1
  <2>2. CASE u # t
    <3>1. Delayed(u) /\ phase \notin WakePhases
      BY <1>2, <1>5, <2>2 DEF Delayed, WakePhases
    <3>2. /\ Timed(u) /\ store.generic[u] = TurnList(u) /\ ticksLeft[u] > 0
      BY <3>1 DEF DelayInv, DelaysTimed, NoneDue
    <3>. QED BY <1>2, <2>2, <3>2 DEF Timed, TurnList
  <2>. QED BY <2>1, <2>2
<1>6. DelaysTimed' /\ NoneDue'
  BY <1>5 DEF DelaysTimed, NoneDue, Delayed
<1>7. InsertTimed'
  BY DEF DelayInv, InsertTimed, Timed
<1>8. TimersHeld'
  BY <1>2 DEF DelayInv, TimersHeld, Delayed
<1>. QED BY <1>4, <1>6, <1>7, <1>8 DEF DelayInv, ListsApart

LEMMA DelayInsertDelay ==
  ASSUME Typed, LockInv, StoreInv, DelayInv, Typed', StoreInv',
         NEW t \in TCB, DelayInsert(t)
  PROVE  DelayInv'
<1>. USE DEF tickVars, delayVars, loopVars, runVars
<1>1. /\ Runs(t) /\ pc[t] = "insert" /\ phase = "run"
      /\ UNCHANGED <<xTickCount, pxDelayedTaskList, pxOverflowDelayedTaskList,
                     phase, delayVars>>
  BY DEF DelayInsert, RunsAt, Runs, InterruptsEnabled
<1>2. Timed(t) /\ ticksLeft[t] > 0
  BY <1>1 DEF DelayInv, InsertTimed
<1>3. DelayListFor(xItemValue[t]) = TurnList(t) /\ TurnList(t) \in DelayLists
  BY <1>2, CountAssumption DEF DelayListFor, TurnList, Timed, Typed, Tick
<1>4. store.generic[t] = NULL
  BY <1>1 DEF StoreInv, Placement, BetweenLists
<1>5. /\ pc'[t] # "insert"
      /\ \A u \in TCB : u # t => pc'[u] = pc[u]
  BY DEF DelayInsert, Goto, Typed
<1>6. /\ store' = InsertGeneric(store, TurnList(t), xItemValue, t)
      /\ TurnList(t) = TurnList(t)' /\ Timed(t)' /\ ticksLeft'[t] > 0
  BY <1>1, <1>2, <1>3 DEF DelayInsert, TurnList, Timed
<1>. QED BY <1>1, <1>3, <1>4, <1>5, <1>6, InsertDelay

(* Into a delay list, or into the suspended list to wait for ever. *)
LEMMA PlaceInsertDelay ==
  ASSUME Typed, LockInv, StoreInv, DelayInv, Typed', StoreInv',
         NEW t \in TCB, PlaceInsert(t)
  PROVE  DelayInv'
<1>. USE DEF tickVars, loopVars, runVars
<1>1. /\ Runs(t) /\ pc[t] = "placeInsert" /\ phase = "run"
      /\ Goto(t, "unlock")
      /\ UNCHANGED <<xTickCount, pxDelayedTaskList, pxOverflowDelayedTaskList,
                     phase>>
  BY DEF PlaceInsert, RunsAt, Runs, InterruptsEnabled
<1>2. store.generic[t] = NULL
  BY <1>1 DEF StoreInv, Placement, BetweenLists
<1>3. CASE /\ store' = InsertEndGeneric(store, xSuspendedTaskList, t)
           /\ UNCHANGED delayVars
  <2>1. /\ xSuspendedTaskList \in GenericLists \ DelayLists
        /\ store \in Stores
    BY ListNames DEF Typed
  <2>2. store'.generic = [store.generic EXCEPT ![t] = xSuspendedTaskList]
    BY <1>2, <1>3, <2>1, InsertEndGenericOK DEF StoreInv, StoreConsistent
  <2>3. Relinked(t, xSuspendedTaskList)
    BY <2>1, <2>2 DEF Relinked, Stores
  <2>4. Quiet /\ KeepsOrder(store, store') /\ ~Delayed(t)
    BY <1>1, <1>2, <1>3, <2>1, GotoQuiet, MoveKeepsOrder, ListNames,
       ListsDisjoint DEF Delayed
  <2>5. Stands
    BY <1>3, <2>1, <2>3, <2>4, MovedStands
  <2>. QED BY <2>5, StandsDelay
<1>4. ASSUME NEW xTicksToWait \in Tick \ {0},
             xItemValue' = [xItemValue EXCEPT
                    ![t] = (xTickCount + xTicksToWait) % TickCount],
             ticksLeft' = [ticksLeft EXCEPT ![t] = xTicksToWait],
             store' = InsertGeneric(store, DelayListFor(xItemValue'[t]),
                                    xItemValue', t)
      PROVE  DelayInv'
  <2>1. /\ xItemValue'[t] = (xTickCount + xTicksToWait) % TickCount
        /\ ticksLeft'[t] = xTicksToWait
        /\ \A u \in TCB : u # t => /\ xItemValue'[u] = xItemValue[u]
                                   /\ ticksLeft'[u] = ticksLeft[u]
    BY <1>4 DEF Typed
  <2>2. /\ pc'[t] # "insert"
        /\ \A u \in TCB : u # t => pc'[u] = pc[u]
    BY <1>1 DEF Goto, Typed
  <2>3. xItemValue'[t] = IF xTickCount + xTicksToWait < TickCount
                         THEN xTickCount + xTicksToWait
                         ELSE xTickCount + xTicksToWait - TickCount
    BY <2>1, WrapOnce DEF Typed
  <2>4. /\ xTickCount \in Nat /\ xTickCount < TickCount
        /\ xTicksToWait \in Nat /\ xTicksToWait > 0
        /\ xTicksToWait < TickCount /\ TickCount \in Nat
    BY CountAssumption DEF Typed, Tick
  <2>5. Timed(t)' /\ ticksLeft'[t] > 0
    BY <1>1, <2>1, <2>3, <2>4 DEF Timed
  <2>6. DelayListFor(xItemValue'[t]) = TurnList(t)'
    BY <1>1, <2>1, <2>3, <2>4 DEF DelayListFor, TurnList
  <2>7. PICK l \in DelayLists : l = TurnList(t)'
    BY DEF TurnList, Typed
  <2>8. PICK value : value = xItemValue'
    OBVIOUS
  <2>9. store' = InsertGeneric(store, l, value, t)
    BY <1>4, <2>6, <2>7, <2>8
  <2>. QED BY <1>1, <1>2, <2>1, <2>2, <2>5, <2>7, <2>8, <2>9, InsertDelay
<1>. QED BY <1>3, <1>4 DEF PlaceInsert

(* vTaskPlaceOnEventList puts the event item into the event list; the delay
   lists stay as they are. *)
LEMMA PlaceItemDelay ==
  ASSUME Typed, StoreInv, DelayInv, Typed', StoreInv',
         NEW t \in TCB, PlaceEventItem(t)
  PROVE  DelayInv'
<1>. USE DEF tickVars, delayVars, loopVars, runVars
<1>1. PICK e \in Event :
         store' = InsertEvent(store, EventList(e), EventItemValue, t)
  BY DEF PlaceEventItem
<1>2. EventList(e) \in Lists /\ EventList(e) \notin DelayLists
  BY ListNames, ListsDisjoint
<1>3. /\ store'.generic = store.generic
      /\ \A l \in DelayLists : store'.ring[l] = store.ring[l]
  BY <1>1, <1>2, ListNames, ListsDisjoint DEF InsertEvent, Typed, Stores
<1>4. /\ \A u \in TCB : pc'[u] = "insert" <=> pc[u] = "insert"
      /\ UNCHANGED <<delayVars, xTickCount, pxDelayedTaskList,
                     pxOverflowDelayedTaskList, phase>>
  BY DEF PlaceEventItem, RunsAt, Goto, Typed
<1>. QED BY <1>3, <1>4
         DEF DelayInv, ListsApart, DelaysSorted, DelaysTimed, InsertTimed,
             NoneDue, Timed, TurnList, Delayed, TimersHeld

LEMMA NextTickValue ==
  ASSUME Typed
  PROVE  NextTick = IF xTickCount + 1 < TickCount THEN xTickCount + 1 ELSE 0
<1>1. 1 \in Tick /\ xTickCount \in Tick
  BY CountAssumption DEF Tick, Typed
<1>2. (xTickCount + 1) % TickCount
        = IF xTickCount + 1 < TickCount THEN xTickCount + 1
          ELSE xTickCount + 1 - TickCount
  BY <1>1, WrapOnce
<1>3. ~(xTickCount + 1 < TickCount) => xTickCount + 1 - TickCount = 0
  BY <1>1, CountAssumption DEF Tick
<1>. QED BY <1>2, <1>3 DEF NextTick

(* A tick is counted: every delayed task has one less to wait, the tasks of the
   next round of the tick count become the current ones when it wraps, and the
   list they leave is empty, since nobody in it had a tick left. *)
LEMMA TickDelay ==
  ASSUME Typed, LockInv, StoreInv, DelayInv, Typed',
         TickInterrupt \/ ReplayTick
  PROVE  DelayInv'
<1>. USE DEF tickVars, listVars, taskVars, suspendVars, runVars
<1>1. /\ IncrementTick
      /\ phase \notin WakePhases /\ phase' \in WakePhases
      /\ UNCHANGED <<store, xItemValue, pc>>
  BY DEF TickInterrupt, ReplayTick, InterruptsEnabled, WakePhases
<1>2. \A u \in TCB : pc[u] # "insert"
  <2>. SUFFICES ASSUME NEW u \in TCB, pc[u] = "insert"
                PROVE  FALSE
    OBVIOUS
  <2>1. u = pxCurrentTCB /\ (phase = "run" => uxSchedulerSuspended = 1)
    BY DEF LockInv, WindowsAlone, Windows
  <2>2. CASE TickInterrupt
    BY <2>1, <2>2 DEF TickInterrupt, InterruptsEnabled
  <2>3. CASE ReplayTick
    BY <2>1, <2>3 DEF ReplayTick, StoreInv, LoopCaller
  <2>. QED BY <2>2, <2>3
<1>3. \A u \in TCB : Delayed(u) =>
         /\ Timed(u) /\ store.generic[u] = TurnList(u)
         /\ ticksLeft[u] > 0 /\ ticksLeft'[u] = ticksLeft[u] - 1
  BY <1>1 DEF DelayInv, DelaysTimed, NoneDue, IncrementTick
<1>7. TimersHeld'
  <2>1. \A u \in TCB : ~Delayed(u) => ticksLeft'[u] = ticksLeft[u]
    BY <1>1 DEF IncrementTick
  <2>. QED BY <1>1, <2>1 DEF DelayInv, TimersHeld, Delayed
<1>4. /\ xTickCount \in Nat /\ xTickCount < TickCount /\ TickCount \in Nat
      /\ \A u \in TCB : ticksLeft[u] \in Nat /\ ticksLeft[u] < TickCount
  BY CountAssumption DEF Typed, Tick
<1>5. CASE xTickCount + 1 < TickCount
  <2>1. /\ xTickCount' = xTickCount + 1
        /\ UNCHANGED <<pxDelayedTaskList, pxOverflowDelayedTaskList>>
    BY <1>1, <1>4, <1>5, NextTickValue DEF IncrementTick
  <2>2. \A u \in TCB : Delayed(u) =>
           xTickCount' + ticksLeft'[u] = xTickCount + ticksLeft[u]
    BY <1>3, <1>4, <2>1
  <2>3. DelaysTimed'
    <3>1. ASSUME NEW u \in TCB, Delayed(u)
          PROVE  Timed(u)' /\ store.generic[u] = TurnList(u)'
      <4>1. Timed(u) /\ store.generic[u] = TurnList(u)
        BY <1>3, <3>1
      <4>2. xTickCount' + ticksLeft'[u] = xTickCount + ticksLeft[u]
        BY <2>2, <3>1
      <4>3. UNCHANGED <<pxDelayedTaskList, pxOverflowDelayedTaskList>>
        BY <2>1
      <4>4. xItemValue'[u] = xItemValue[u]
        BY <1>1
      <4>5. Timed(u)'
        BY <1>4, <4>1, <4>2, <4>4, CountAssumption DEF Timed, Typed, Tick
      <4>6. TurnList(u) = TurnList(u)'
        BY <4>2, <4>3 DEF TurnList
      <4>. QED BY <4>1, <4>5, <4>6
    <3>. QED BY <1>1, <3>1 DEF DelaysTimed, Delayed
  <2>. QED BY <1>1, <1>2, <1>7, <2>1, <2>3
           DEF DelayInv, ListsApart, DelaysSorted, InsertTimed, NoneDue
<1>6. CASE ~(xTickCount + 1 < TickCount)
  <2>1. /\ xTickCount' = 0
        /\ pxDelayedTaskList' = pxOverflowDelayedTaskList
        /\ pxOverflowDelayedTaskList' = pxDelayedTaskList
    BY <1>1, <1>6, NextTickValue DEF IncrementTick, SwapDelayLists
  <2>2. ASSUME NEW u \in TCB, Delayed(u)
        PROVE  Timed(u)' /\ store.generic[u] = TurnList(u)'
    <3>1. ~(xTickCount + ticksLeft[u] < TickCount)
      BY <1>3, <1>4, <1>6, <2>2
    <3>2. /\ xItemValue[u] = xTickCount + ticksLeft[u] - TickCount
          /\ store.generic[u] = pxOverflowDelayedTaskList
      BY <1>3, <2>2, <3>1 DEF Timed, TurnList
    <3>3. /\ xItemValue[u] = ticksLeft'[u]
          /\ 0 + ticksLeft'[u] < TickCount /\ ticksLeft'[u] = 0 + ticksLeft'[u]
      BY <1>3, <1>4, <1>6, <2>2, <3>2
    <3>. QED BY <1>1, <2>1, <3>2, <3>3 DEF Timed, TurnList
  <2>3. DelaysTimed'
    BY <1>1, <2>2 DEF DelaysTimed, Delayed
  <2>. QED BY <1>1, <1>2, <1>7, <2>1, <2>3
           DEF DelayInv, ListsApart, DelaysSorted, InsertTimed, NoneDue
<1>. QED BY <1>5, <1>6

(* When prvCheckDelayedTasks finds no head that is due, it has found every task
   that was: the heads come first. *)
LEMMA HeadFirst ==
  ASSUME Typed, StoreInv, DelayInv, ~HeadIsDue, NEW t \in TCB, Delayed(t)
  PROVE  ticksLeft[t] > 0
<1>1. Timed(t) /\ store.generic[t] = TurnList(t)
  BY DEF DelayInv, DelaysTimed
<1>2. /\ xTickCount \in Nat /\ xTickCount < TickCount /\ TickCount \in Nat
      /\ ticksLeft[t] \in Nat /\ xItemValue \in [TCB -> Int]
  BY CountAssumption DEF Typed, Tick
<1>3. CASE xTickCount + ticksLeft[t] < TickCount
  <2>1. /\ store.generic[t] = pxDelayedTaskList
        /\ xItemValue[t] = xTickCount + ticksLeft[t]
    BY <1>1, <1>3 DEF Timed, TurnList
  <2> DEFINE s == store.ring[pxDelayedTaskList]
  <2>2. /\ pxDelayedTaskList \in GenericLists /\ pxDelayedTaskList \in Lists
        /\ pxDelayedTaskList \in DelayLists
    BY ListNames, ListsDisjoint DEF Typed
  <2>3. /\ s \in Seq(TCB)
        /\ Contains(s, t)
        /\ Ordered(s, xItemValue)
    BY <2>1, <2>2 DEF Typed, Stores, StoreInv, StoreConsistent, StoreOK,
                      DelayInv, DelaysSorted
  <2>4. s # <<>> /\ xItemValue[Head(s)] <= xItemValue[t]
    <3>. HIDE DEF s
    <3>. QED BY <1>2, <2>3, OrderedHead
  <2>5. OwnerOfHead(store, pxDelayedTaskList) = Head(s)
    BY <2>4 DEF OwnerOfHead, IsEmpty
  <2>6. Head(s) \in TCB
    BY <2>2, <2>4, <2>5, OwnerOfHeadIsTask DEF IsEmpty, Typed
  <2>. HIDE DEF s
  <2>7. ~(xTickCount >= xItemValue[Head(s)])
    BY <2>4, <2>5 DEF HeadIsDue, IsEmpty, s
  <2>8. xItemValue[Head(s)] \in Int /\ xItemValue[t] \in Int
    BY <1>2, <2>6
  <2>. QED BY <1>2, <2>1, <2>4, <2>7, <2>8
<1>4. CASE ~(xTickCount + ticksLeft[t] < TickCount)
  BY <1>2, <1>4
<1>. QED BY <1>3, <1>4

LEMMA TickDoneDelay ==
  ASSUME Typed, StoreInv, DelayInv, TickInterruptDone \/ ReplayTickDone
  PROVE  DelayInv'
<1>1. UNCHANGED <<store, xItemValue, ticksLeft, xTickCount, pxDelayedTaskList,
                  pxOverflowDelayedTaskList, pc>>
  BY DEF TickInterruptDone, ReplayTickDone, tickVars, listVars, delayVars
<1>2. \A t \in TCB : Delayed(t) => ticksLeft[t] > 0
  BY HeadFirst DEF TickInterruptDone, ReplayTickDone
<1>. QED BY <1>1, <1>2
         DEF DelayInv, ListsApart, DelaysSorted, DelaysTimed, InsertTimed,
             NoneDue, Timed, TurnList, Delayed, TimersHeld

(* Conversely a head that is due has slept as long as it meant to. *)
LEMMA DueHead ==
  ASSUME Typed, StoreInv, DelayInv, HeadIsDue
  PROVE  ticksLeft[OwnerOfHead(store, pxDelayedTaskList)] = 0
<1> DEFINE t == OwnerOfHead(store, pxDelayedTaskList)
<1>1. /\ pxDelayedTaskList \in GenericLists
      /\ pxDelayedTaskList \in DelayLists
  BY ListNames DEF Typed
<1>2. t \in TCB /\ store.generic[t] = pxDelayedTaskList
  BY <1>1, HeadGeneric DEF StoreInv, HeadIsDue, Typed
<1>3. xTickCount >= xItemValue[t]
  BY DEF HeadIsDue
<1>. HIDE DEF t
<1>4. Timed(t) /\ store.generic[t] = TurnList(t)
  BY <1>1, <1>2 DEF DelayInv, DelaysTimed, Delayed
<1>5. xItemValue[t] = xTickCount + ticksLeft[t]
  BY <1>2, <1>4 DEF Timed, TurnList, DelayInv, ListsApart
<1>6. ticksLeft[t] \in Nat /\ xTickCount \in Nat
  BY <1>2 DEF Typed, Tick
<1>. QED BY <1>3, <1>5, <1>6 DEF t

-----------------------------------------------------------------------------
(* The invariant holds. *)

LEMMA StandsOrSpecial ==
  ASSUME Typed, LockInv, StoreInv, Cached, Next
  PROVE  \/ Stands \/ Boot
         \/ \E t \in TCB : \/ DelayUnlink(t) \/ UntilDecide(t)
                           \/ DelayInsert(t) \/ PlaceInsert(t)
                           \/ PlaceEventItem(t)
         \/ TickInterrupt \/ ReplayTick \/ TickInterruptDone \/ ReplayTickDone
<1>1. ASSUME NEW t \in TCB, CallStep(t)
      PROVE  \/ Stands
             \/ DelayUnlink(t) \/ UntilDecide(t) \/ DelayInsert(t)
             \/ PlaceInsert(t) \/ PlaceEventItem(t)
  <2>1. CASE pc[t] \in {"delay", "until", "insert", "place", "placeInsert"}
    BY <1>1, <2>1
       DEF CallStep, YieldWithinAPI, PlaceUnlink, QueueUnlock, ResumeAll,
           RunsApp, RunsAt
  <2>. QED BY <1>1, <2>1, CallStepStands
<1>. QED BY <1>1, CallStands, IdleStands, MaskedStands, InterruptStands
         DEF Next, MaskedStep, TickISR

LEMMA InitDelay == Init => DelayInv
<1>. SUFFICES ASSUME Init PROVE DelayInv
  OBVIOUS
<1>1. NULL \notin DelayLists /\ \A l \in DelayLists : l \in Lists
  BY ListNames, ListsDisjoint
<1>2. \A t \in TCB : store.generic[t] \notin DelayLists
  BY <1>1 DEF Init, EmptyStore
<1>3. \A l \in DelayLists : store.ring[l] = <<>>
  BY <1>1 DEF Init, EmptyStore
<1>. QED BY <1>2, <1>3
         DEF Init, DelayInv, ListsApart, DelaysSorted, Ordered, DelaysTimed,
             InsertTimed, NoneDue, TimersHeld, Delayed, xDelayedTaskList1,
             xDelayedTaskList2

LEMMA StutterDelay == DelayInv /\ UNCHANGED vars => DelayInv'
  BY DEF vars, tickVars, listVars, delayVars, loopVars, DelayInv, ListsApart,
         DelaysSorted, DelaysTimed, InsertTimed, NoneDue, TimersHeld, Timed,
         TurnList, Delayed

LEMMA DelayStep ==
  Typed /\ LockInv /\ StoreInv /\ DispatchInv /\ DelayInv /\ [Next]_vars
    => DelayInv'
<1>. SUFFICES ASSUME Typed, LockInv, StoreInv, DispatchInv, DelayInv, Next
              PROVE  DelayInv'
  BY StutterDelay
<1>1. Typed' /\ StoreInv'
  BY TypeStep, StoreStep
<1>2. CASE Stands
  BY <1>1, <1>2, StandsDelay
<1>3. CASE Boot
  BY <1>1, <1>3, BootDelay
<1>4. CASE \E t \in TCB : DelayUnlink(t) \/ UntilDecide(t)
  BY <1>1, <1>4, UnlinkStepDelay
<1>5. CASE \E t \in TCB : DelayInsert(t) \/ PlaceInsert(t) \/ PlaceEventItem(t)
  BY <1>1, <1>5, DelayInsertDelay, PlaceInsertDelay, PlaceItemDelay
<1>6. CASE TickInterrupt \/ ReplayTick
  BY <1>1, <1>6, TickDelay
<1>7. CASE TickInterruptDone \/ ReplayTickDone
  BY <1>7, TickDoneDelay
<1>. QED BY <1>2, <1>3, <1>4, <1>5, <1>6, <1>7, StandsOrSpecial
         DEF DispatchInv, DispatchInvIf

LEMMA DelayInvariance == Spec => []DelayInv
<1>1. Init => DelayInv
  BY InitDelay
<1>2. Typed /\ LockInv /\ StoreInv /\ DispatchInv /\ DelayInv /\ [Next]_vars
        => DelayInv'
  BY DelayStep
<1>. QED BY <1>1, <1>2, Invariance, StoreInvariance, DispatchInvariance, PTL
         DEF Spec

(* The delay lists are in order, and the wake times right: vTaskDelay,
   vTaskDelayUntil and vTaskPlaceOnEventList put a task that wakes before the
   tick count wraps into the current delay list and the others into the
   overflow list, and the two swap roles exactly when the count wraps. *)
THEOREM WakeTimesOrdered == Spec => []DelayListsOrdered
<1>1. Typed /\ DelayInv => DelayListsOrdered
  <2>. SUFFICES ASSUME Typed, DelayInv
                PROVE  DelayListsOrdered
    OBVIOUS
  <2>1. ASSUME NEW t \in TCB, Delayed(t)
        PROVE  /\ (xTickCount + ticksLeft[t]) % TickCount = xItemValue[t]
               /\ store.generic[t] = TurnList(t)
    <3>1. Timed(t) /\ store.generic[t] = TurnList(t)
      BY <2>1 DEF DelayInv, DelaysTimed
    <3>2. xTickCount \in Tick /\ ticksLeft[t] \in Tick
      BY DEF Typed
    <3>. QED BY <3>1, <3>2, WrapOnce DEF Timed
  <2>. QED BY <2>1
           DEF DelayInv, ListsApart, DelaysSorted, Ordered, TurnList,
               DelayListsOrdered
<1>. QED BY <1>1, Invariance, DelayInvariance, PTL

(* No task sleeps too long: when prvCheckDelayedTasks has stopped at the first
   task whose time has not come, no task behind it is due either. *)
THEOREM NobodyOversleeps == Spec => []NeverLate
<1>1. DelayInv => NeverLate
  BY DEF DelayInv, NoneDue, NeverLate, WakePhases
<1>. QED BY <1>1, DelayInvariance, PTL

(* While the tick code is at work nothing else moves. *)
LEMMA WakeSteps ==
  ASSUME LockInv, phase \in WakePhases, Next
  PROVE  WakeHead \/ TickInterruptDone \/ ReplayTickDone
<1>1. phase \notin {"run", "drain", "replay"}
  BY DEF WakePhases
<1>2. ~Boot
  BY <1>1 DEF Boot, CreateBeforeStart, StartScheduler, LockInv,
              QuietBeforeStart
<1>3. ~InterruptsEnabled
  BY <1>1 DEF InterruptsEnabled
<1>4. \A t \in TCB : ~CallStep(t)
  BY <1>3 DEF CallStep, YieldWithinAPI, DelayUnlink, UntilDecide, DelayInsert,
              PlaceEventItem, PlaceUnlink, PlaceInsert, QueueUnlock, ResumeAll,
              RunsAt, Runs
<1>5. \A t \in Task : ~Call(t)
  BY <1>3 DEF Call, CreateTask, AppSuspendAll, TaskYield, DelayZero,
              DelaySuspend, DelayUntilSuspend, QueueSuspend, TaskSignals,
              SuspendTask, ResumeTask, DeleteTask, PrioritySet, MayBlock,
              RunsApp, RunsAt, Runs
<1>6. ~IdleStep
  BY <1>3 DEF IdleStep, IdleSuspend, IdleReadList, IdleReap, Reap, IdleLoop,
              RunsAt, Runs
<1>7. ~TickISR /\ ~OtherISR /\ ~Switch
  BY <1>3 DEF TickISR, TickInterrupt, TickInterruptMissed, OtherISR,
              ResumeFromISR, InterruptSignals, InterruptSignalsLocked, Switch,
              SwitchMissed, SwitchContext, SwitchAllowed
<1>8. MaskedStep
  BY <1>2, <1>4, <1>5, <1>6, <1>7 DEF Next
<1>. QED BY <1>1, <1>8
         DEF MaskedStep, DrainPending, DrainDone, ReplayTick, ResumeAllDone

LEMMA WakesDueOnly ==
  ASSUME Typed, LockInv, StoreInv, DelayInv, [Next]_vars,
         phase \in WakePhases, NEW t \in TCB
  PROVE  store'.generic[t] = store.generic[t] \/ ticksLeft[t] = 0
<1>1. CASE UNCHANGED vars
  BY <1>1 DEF vars, listVars
<1>2. CASE TickInterruptDone \/ ReplayTickDone
  BY <1>2 DEF TickInterruptDone, ReplayTickDone, listVars
<1>3. CASE WakeHead
  <2>1. HeadIsDue
    BY <1>3 DEF WakeHead
  <2>2. Relinked(OwnerOfHead(store, pxDelayedTaskList),
                 pxReadyTasksLists(
                   uxPriority[OwnerOfHead(store, pxDelayedTaskList)]))
    BY <1>3, WakeEffect DEF Readied
  <2>3. ticksLeft[OwnerOfHead(store, pxDelayedTaskList)] = 0
    BY <2>1, DueHead
  <2>. QED BY <2>2, <2>3 DEF Relinked
<1>. QED BY <1>1, <1>2, <1>3, WakeSteps

(* No task wakes too soon: prvCheckDelayedTasks readies the head of the delay
   list only when the ticks its task asked for have passed, those that
   xTaskResumeAll replays included. *)
THEOREM NobodyWakesEarly == Spec => NeverEarly
<1>1. Typed /\ LockInv /\ StoreInv /\ DelayInv /\ [Next]_vars
        => [\A t \in TCB :
              phase \in {"tickWake", "replayWake"} /\ Delayed(t) =>
                store'.generic[t] = store.generic[t] \/ ticksLeft[t] = 0]_vars
  BY WakesDueOnly DEF WakePhases
<1>. QED BY <1>1, Invariance, StoreInvariance, DelayInvariance, PTL
         DEF Spec, NeverEarly

-----------------------------------------------------------------------------
(* No tick is lost.  First what a counter modulo n does. *)

LEMMA ModularSum ==
  ASSUME NEW n \in Nat \ {0}, NEW x \in Int, NEW q \in Int,
         NEW r \in 0 .. n - 1, x = n * q + r
  PROVE  x % n = r
  OBVIOUS

LEMMA ModularParts ==
  ASSUME NEW n \in Nat \ {0}, NEW x \in Int
  PROVE  \E q \in Int, r \in 0 .. n - 1 : x = n * q + r /\ x % n = r
<1>1. x = n * (x \div n) + (x % n) /\ x \div n \in Int
  OBVIOUS
<1>2. x % n \in 0 .. n - 1
  OBVIOUS
<1>. QED BY <1>1, <1>2

(* A turn more or less is not seen. *)
LEMMA ModularTurn ==
  ASSUME NEW n \in Nat \ {0}, NEW x \in Int
  PROVE  (x - n) % n = x % n
<1>1. PICK q \in Int, r \in 0 .. n - 1 : x = n * q + r /\ x % n = r
  BY ModularParts
<1>2. PICK p \in Int : p = q - 1
  OBVIOUS
<1>3. n * p = n * q - n
  BY <1>2
<1>4. x - n = n * p + r /\ x - n \in Int
  BY <1>1, <1>3
<1>5. (x - n) % n = r
  BY <1>4, ModularSum
<1>. QED BY <1>1, <1>5

(* To count one more is the same before and after the reduction. *)
LEMMA ModularNext ==
  ASSUME NEW n \in Nat \ {0}, NEW x \in Int
  PROVE  ((x % n) + 1) % n = (x + 1) % n
<1>1. PICK q \in Int, r \in 0 .. n - 1 : x = n * q + r /\ x % n = r
  BY ModularParts
<1>2. CASE r + 1 < n
  <2>1. r + 1 \in 0 .. n - 1 /\ 0 \in Int
    BY <1>2
  <2>2. x + 1 = n * q + (r + 1) /\ x + 1 \in Int
    BY <1>1
  <2>3. r + 1 = n * 0 + (r + 1) /\ r + 1 \in Int
    BY <1>1
  <2>4. (x + 1) % n = r + 1
    BY <2>1, <2>2, ModularSum
  <2>5. (r + 1) % n = r + 1
    BY <2>1, <2>3, ModularSum
  <2>. QED BY <1>1, <2>4, <2>5
<1>3. CASE r + 1 = n
  <2>1. PICK p \in Int : p = q + 1
    OBVIOUS
  <2>2. n * p = n * q + n
    BY <2>1
  <2>3. x + 1 = n * p + 0 /\ x + 1 \in Int /\ 0 \in 0 .. n - 1
    BY <1>1, <1>3, <2>2
  <2>4. r + 1 = n * 1 + 0 /\ r + 1 \in Int /\ 1 \in Int
    BY <1>3
  <2>5. (x + 1) % n = 0
    BY <2>3, ModularSum
  <2>6. (r + 1) % n = 0
    BY <2>3, <2>4, ModularSum
  <2>. QED BY <1>1, <2>5, <2>6
<1>. QED BY <1>2, <1>3

LEMMA CountStands ==
  ASSUME UNCHANGED <<xTickCount, uxMissedTicks, ticksArrived>>,
         (phase' = "replayWake") <=> (phase = "replayWake"), TicksNotLost
  PROVE  TicksNotLost'
  BY DEF TicksNotLost

LEMMA CallCounts ==
  ASSUME \/ \E t \in TCB : CallStep(t)
         \/ \E t \in Task : Call(t)
  PROVE  /\ UNCHANGED <<xTickCount, uxMissedTicks, ticksArrived>>
         /\ (phase' = "replayWake") <=> (phase = "replayWake")
<1>. USE DEF tickVars, suspendVars, loopVars
<1>1. ASSUME NEW t \in TCB, CallStep(t)
      PROVE  /\ UNCHANGED <<xTickCount, uxMissedTicks, ticksArrived>>
             /\ (phase' = "replayWake") <=> (phase = "replayWake")
  BY <1>1 DEF CallStep, YieldWithinAPI, RequestSwitch, DelayUnlink,
              UntilDecide, DelayInsert, PlaceEventItem, PlaceUnlink,
              PlaceInsert, QueueUnlock, ResumeAll, Runs, InterruptsEnabled
<1>2. ASSUME NEW t \in Task, Call(t)
      PROVE  UNCHANGED <<xTickCount, uxMissedTicks, ticksArrived, phase>>
  BY <1>2 DEF Call, CreateTask, Create, AppSuspendAll, SuspendAll, TaskYield,
              RequestSwitch, DelayZero, DelaySuspend, DelayUntilSuspend,
              QueueSuspend, TaskSignals, SuspendTask, ResumeTask, DeleteTask,
              PrioritySet
<1>. QED BY <1>1, <1>2

LEMMA OtherCounts ==
  ASSUME \/ \E t \in Task, p \in RequestedPriority : CreateBeforeStart(t, p)
         \/ IdleStep
         \/ DrainPending \/ DrainDone \/ ResumeAllDone \/ WakeHead
         \/ TickInterruptDone
         \/ OtherISR \/ Switch
  PROVE  /\ UNCHANGED <<xTickCount, uxMissedTicks, ticksArrived>>
         /\ (phase' = "replayWake") <=> (phase = "replayWake")
<1>. USE DEF tickVars, suspendVars, loopVars
<1>1. CASE \E t \in Task, p \in RequestedPriority : CreateBeforeStart(t, p)
  BY <1>1 DEF CreateBeforeStart, Create
<1>2. CASE IdleStep
  BY <1>2 DEF IdleStep, IdleSuspend, SuspendAll, IdleReadList, IdleReap, Reap,
              IdleLoop
<1>3. CASE \/ DrainPending \/ DrainDone \/ ResumeAllDone \/ WakeHead
           \/ TickInterruptDone
  BY <1>3 DEF DrainPending, DrainDone, ResumeAllDone, WakeHead,
              TickInterruptDone
<1>4. CASE OtherISR \/ Switch
  BY <1>4 DEF OtherISR, ResumeFromISR, InterruptSignals,
              InterruptSignalsLocked, Switch, SwitchMissed, SwitchContext
<1>. QED BY <1>1, <1>2, <1>3, <1>4

LEMMA CountStep ==
  ASSUME Typed, LockInv, HeldBack, TicksNotLost, [Next]_vars
  PROVE  TicksNotLost'
<1>. USE DEF tickVars, suspendVars, loopVars
<1>0. /\ xTickCount \in Nat /\ uxMissedTicks \in Nat /\ ticksArrived \in Nat
      /\ TickCount \in Nat \ {0}
  BY CountAssumption DEF Typed, Tick
<1>1. CASE UNCHANGED vars
  BY <1>1, CountStands DEF vars
<1>2. CASE StartScheduler
  <2>1. phase = "run" /\ uxSchedulerSuspended = 0
    BY <1>2 DEF StartScheduler, LockInv, QuietBeforeStart
  <2>2. uxMissedTicks = 0
    BY <1>0, <2>1 DEF HeldBack
  <2>3. /\ xTickCount' = 0 /\ ticksArrived' = 0 /\ uxMissedTicks' = 0
        /\ phase' = "run"
    BY <1>2, <2>1, <2>2 DEF StartScheduler, Create
  <2>4. 0 % TickCount = 0
    BY <1>0
  <2>. QED BY <2>3, <2>4 DEF TicksNotLost
<1>3. CASE TickInterrupt
  <2>1. phase = "run" /\ uxSchedulerSuspended = 0
    BY <1>3 DEF TickInterrupt, InterruptsEnabled
  <2>2. uxMissedTicks = 0
    BY <1>0, <2>1 DEF HeldBack
  <2>3. xTickCount + 0 - 0 = xTickCount
    BY <1>0
  <2>4. ticksArrived = xTickCount
    <3>0. xTickCount < TickCount
      BY <1>0 DEF Typed, Tick
    <3>1. xTickCount % TickCount = xTickCount
      BY <1>0, <3>0, TickArithmetic
    <3>. QED BY <2>1, <2>2, <2>3, <3>1 DEF TicksNotLost
  <2>5. /\ xTickCount' = (xTickCount + 1) % TickCount
        /\ ticksArrived' = (xTickCount + 1) % TickCount
        /\ uxMissedTicks' = 0 /\ phase' = "tickWake"
    BY <1>3, <2>2, <2>4 DEF TickInterrupt, IncrementTick, NextTick
  <2>6. PICK y \in Nat : y = (xTickCount + 1) % TickCount
    BY <1>0
  <2>7. y % TickCount = y
    <3>1. y \in Tick
      BY <1>0, <2>6, TickArithmetic
    <3>. QED BY <3>1, CountAssumption, TickArithmetic DEF Tick
  <2>8. y + 0 - 0 = y
    OBVIOUS
  <2>. QED BY <2>5, <2>6, <2>7, <2>8 DEF TicksNotLost
<1>4. CASE TickInterruptMissed
  <2>1. /\ phase = "run" /\ phase' = phase
        /\ xTickCount' = xTickCount /\ uxMissedTicks' = uxMissedTicks + 1
        /\ ticksArrived' = (ticksArrived + 1) % TickCount
    BY <1>4 DEF TickInterruptMissed, InterruptsEnabled
  <2>2. PICK x \in Int : x = xTickCount + uxMissedTicks
    BY <1>0
  <2>3. ticksArrived = x % TickCount
    <3>1. xTickCount + uxMissedTicks - 0 = x
      BY <1>0, <2>2
    <3>. QED BY <2>1, <3>1 DEF TicksNotLost
  <2>4. xTickCount + (uxMissedTicks + 1) - 0 = x + 1
    BY <1>0, <2>2
  <2>5. ticksArrived' = (x + 1) % TickCount
    BY <1>0, <2>1, <2>3, ModularNext
  <2>. QED BY <2>1, <2>4, <2>5 DEF TicksNotLost
<1>5. CASE ReplayTick
  <2>1. /\ phase = "replay" /\ phase' = "replayWake"
        /\ xTickCount' = NextTick
        /\ UNCHANGED <<uxMissedTicks, ticksArrived>>
    BY <1>5 DEF ReplayTick, IncrementTick
  <2>2. PICK x \in Int : x = xTickCount + uxMissedTicks
    BY <1>0
  <2>3. ticksArrived = x % TickCount
    <3>1. xTickCount + uxMissedTicks - 0 = x
      BY <1>0, <2>2
    <3>. QED BY <2>1, <3>1 DEF TicksNotLost
  <2>4. CASE NextTick = xTickCount + 1
    <3>1. (xTickCount + 1) + uxMissedTicks - 1 = x
      BY <1>0, <2>2
    <3>. QED BY <2>1, <2>3, <2>4, <3>1 DEF TicksNotLost
  <2>5. CASE NextTick = 0 /\ xTickCount + 1 = TickCount
    <3>1. 0 + uxMissedTicks - 1 = x - TickCount
      BY <1>0, <2>2, <2>5
    <3>2. (x - TickCount) % TickCount = x % TickCount
      BY <1>0, ModularTurn
    <3>. QED BY <2>1, <2>3, <2>5, <3>1, <3>2 DEF TicksNotLost
  <2>6. \/ NextTick = xTickCount + 1
        \/ NextTick = 0 /\ xTickCount + 1 = TickCount
    BY <1>0, NextTickValue DEF Typed, Tick
  <2>. QED BY <2>4, <2>5, <2>6
<1>6. CASE ReplayTickDone
  <2>1. /\ phase = "replayWake" /\ phase' = "replay"
        /\ uxMissedTicks' = uxMissedTicks - 1
        /\ UNCHANGED <<xTickCount, ticksArrived>>
    BY <1>6 DEF ReplayTickDone
  <2>2. xTickCount + (uxMissedTicks - 1) - 0
          = xTickCount + uxMissedTicks - 1
    BY <1>0
  <2>. QED BY <2>1, <2>2 DEF TicksNotLost
<1>7. Next => \/ StartScheduler \/ TickInterrupt \/ TickInterruptMissed
              \/ ReplayTick \/ ReplayTickDone
              \/ /\ UNCHANGED <<xTickCount, uxMissedTicks, ticksArrived>>
                 /\ (phase' = "replayWake") <=> (phase = "replayWake")
  BY CallCounts, OtherCounts DEF Next, Boot, MaskedStep, TickISR
<1>. QED BY <1>1, <1>2, <1>3, <1>4, <1>5, <1>6, <1>7, CountStands

(* The tick count does not slip while the scheduler is suspended: every tick
   interrupt is counted in xTickCount or in uxMissedTicks, and xTaskResumeAll
   turns the one into the other without losing or inventing a tick. *)
THEOREM NoTickLost == Spec => []TicksNotLost
<1>1. Init => TicksNotLost
  <2>1. 0 % TickCount = 0 /\ 0 + 0 - 0 = 0
    BY CountAssumption
  <2>. QED BY <2>1 DEF Init, TicksNotLost
<1>2. Typed /\ LockInv /\ HeldBack /\ TicksNotLost /\ [Next]_vars
        => TicksNotLost'
  BY CountStep
<1>3. DispatchInv => HeldBack
  BY DEF DispatchInv, DispatchInvIf
<1>. QED BY <1>1, <1>2, <1>3, Invariance, DispatchInvariance, PTL DEF Spec

-----------------------------------------------------------------------------
(* The event lists are sorted by priority as long as no priority changes. *)

EventsSorted ==
  \A e \in Event : Ordered(store.ring[EventList(e)], EventItemValue)

EventsKeepOrder ==
  \A e \in Event : \A value :
    Ordered(store.ring[EventList(e)], value) =>
      Ordered(store'.ring[EventList(e)], value)

(* The priority of a task may change when its TCB is used again, not before. *)
PrioritiesKept ==
  \A t \in TCB : uxPriority'[t] = uxPriority[t] \/ store'.event[t] = NULL

LEMMA PriorityStep ==
  ASSUME Typed, LockInv, StoreInv, "vTaskPrioritySet" \notin Include, Next
  PROVE  PrioritiesKept
<1>. USE DEF taskVars
<1>1. ASSUME NEW t \in TCB, NEW p \in RequestedPriority, Create(t, p)
      PROVE  PrioritiesKept
  <2>1. store'.event = store.event /\ t \notin allocated
    BY <1>1, CreateStore DEF StoreInv, CurrentAllocated, FirstFound, Create
  <2>2. store.event[t] = NULL
    BY <2>1 DEF StoreInv, Placement
  <2>3. \A u \in TCB : u # t => uxPriority'[u] = uxPriority[u]
    BY <1>1, CreateEffect DEF StoreInv, CurrentAllocated, FirstFound, Created
  <2>. QED BY <2>1, <2>2, <2>3 DEF PrioritiesKept
<1>2. CASE Boot
  BY <1>1, <1>2, PrioritiesAssumption
     DEF Boot, CreateBeforeStart, StartScheduler, TCB, RequestedPriority
<1>3. ASSUME NEW c \in Task, Call(c)
      PROVE  PrioritiesKept
  <2>1. CASE \E t \in Task, p \in RequestedPriority : CreateTask(c, t, p)
    BY <1>1, <2>1 DEF CreateTask, TCB
  <2>2. \A u \in Task, p \in RequestedPriority : ~PrioritySet(c, u, p)
    BY DEF PrioritySet
  <2>3. CASE ~\E t \in Task, p \in RequestedPriority : CreateTask(c, t, p)
    <3>1. uxPriority' = uxPriority
      BY <1>3, <2>2, <2>3
         DEF Call, AppSuspendAll, SuspendAll, TaskYield, RequestSwitch,
             DelayZero, DelaySuspend, DelayUntilSuspend, QueueSuspend,
             TaskSignals, SuspendTask, ResumeTask, DeleteTask
    <3>. QED BY <3>1 DEF PrioritiesKept
  <2>. QED BY <2>1, <2>3
<1>4. ASSUME NEW t \in TCB, CallStep(t)
      PROVE  uxPriority' = uxPriority
  BY <1>4 DEF CallStep, YieldWithinAPI, RequestSwitch, DelayUnlink,
              UntilDecide, DelayInsert, PlaceEventItem, PlaceUnlink,
              PlaceInsert, QueueUnlock, ResumeAll
<1>5. CASE IdleStep \/ Switch
  <2>1. uxPriority' = uxPriority
    BY <1>5 DEF IdleStep, IdleSuspend, SuspendAll, IdleReadList, IdleReap, Reap,
                IdleLoop, Switch, SwitchMissed, SwitchContext
  <2>. QED BY <2>1 DEF PrioritiesKept
<1>6. CASE MaskedStep
  <2>1. uxPriority' = uxPriority
    BY <1>6 DEF MaskedStep, DrainPending, DrainDone, ReplayTick,
                ReplayTickDone, ResumeAllDone, WakeHead, TickInterruptDone
  <2>. QED BY <2>1 DEF PrioritiesKept
<1>7. CASE TickISR \/ OtherISR
  <2>1. uxPriority' = uxPriority
    BY <1>7 DEF TickISR, TickInterrupt, TickInterruptMissed, OtherISR,
                ResumeFromISR, InterruptSignals, InterruptSignalsLocked
  <2>. QED BY <2>1 DEF PrioritiesKept
<1>8. CASE \E t \in TCB : CallStep(t)
  BY <1>4, <1>8 DEF PrioritiesKept
<1>. QED BY <1>2, <1>3, <1>5, <1>6, <1>7, <1>8 DEF Next

(* Every step but the one that puts an item into an event list leaves the
   event lists in the order they are in. *)
LEMMA EventOrderStep ==
  ASSUME Typed, LockInv, StoreInv, Cached, Next,
         \A t \in TCB : ~PlaceEventItem(t)
  PROVE  EventsKeepOrder
<1>1. ASSUME KeepsOrder(store, store')
      PROVE  EventsKeepOrder
  BY <1>1 DEF KeepsOrder, SortedLists, EventsKeepOrder
<1>2. ASSUME \A e \in Event :
               store'.ring[EventList(e)] = store.ring[EventList(e)]
      PROVE  EventsKeepOrder
  BY <1>2 DEF EventsKeepOrder
<1>3. \A e \in Event :
         EventList(e) \in Lists /\ EventList(e) \notin GenericLists
  BY ListNames, ListsDisjoint
<1>4. CASE Stands
  BY <1>1, <1>4 DEF Stands
<1>5. CASE Boot
  BY <1>1, <1>5, CreateKeepsOrder, PrioritiesAssumption
     DEF Boot, CreateBeforeStart, StartScheduler, TCB, RequestedPriority
<1>6. ASSUME NEW t \in TCB, DelayUnlink(t) \/ UntilDecide(t)
      PROVE  EventsKeepOrder
  <2>1. store' = RemoveGeneric(store, t) \/ store' = store
    BY <1>6 DEF DelayUnlink, UntilDecide, UnlinkToWakeAt
  <2>. QED BY <1>1, <1>2, <2>1, RemoveKeepsOrder DEF Typed
<1>7. ASSUME NEW l \in GenericLists, NEW t, NEW value,
             \/ store' = InsertGeneric(store, l, value, t)
             \/ store' = InsertEndGeneric(store, l, t)
      PROVE  EventsKeepOrder
  <2>0. store \in Stores /\ l \in Lists
    BY DEF Typed, Lists
  <2>1. \A k \in Lists : k # l =>
           /\ InsertGeneric(store, l, value, t).ring[k] = store.ring[k]
           /\ InsertEndGeneric(store, l, t).ring[k] = store.ring[k]
    BY <2>0 DEF InsertGeneric, InsertEndGeneric, Stores
  <2>2. \A e \in Event :
           store'.ring[EventList(e)] = store.ring[EventList(e)]
    BY <1>3, <1>7, <2>1
  <2>. QED BY <1>2, <2>2
<1>8. /\ pxDelayedTaskList \in GenericLists
      /\ pxOverflowDelayedTaskList \in GenericLists
      /\ xSuspendedTaskList \in GenericLists
  BY ListNames DEF Typed
<1>9. CASE \E t \in TCB : DelayInsert(t) \/ PlaceInsert(t)
  BY <1>7, <1>8, <1>9 DEF DelayInsert, PlaceInsert, DelayListFor
<1>10. CASE TickInterrupt \/ ReplayTick \/ TickInterruptDone \/ ReplayTickDone
  BY <1>2, <1>10
     DEF TickInterrupt, ReplayTick, TickInterruptDone, ReplayTickDone,
         listVars
<1>. QED BY <1>4, <1>5, <1>6, <1>9, <1>10, StandsOrSpecial

LEMMA EventItemType ==
  ASSUME Typed
  PROVE  /\ EventItemValue \in [TCB -> Int]
         /\ \A t \in TCB :
               EventItemValue[t] = configMAX_PRIORITIES - uxPriority[t]
  BY PrioritiesAssumption DEF EventItemValue, Typed, Priority

LEMMA InsertItemOrder ==
  ASSUME Typed, EventsSorted, NEW t \in TCB, NEW e \in Event,
         store' = InsertEvent(store, EventList(e), EventItemValue, t),
         UNCHANGED uxPriority
  PROVE  EventsSorted'
<1>1. EventItemValue' = EventItemValue
  BY DEF EventItemValue
<1>2. SUFFICES ASSUME NEW f \in Event
               PROVE  Ordered(store'.ring[EventList(f)], EventItemValue)
  BY <1>1 DEF EventsSorted
<1>3. /\ EventList(e) \in Lists /\ EventList(f) \in Lists
      /\ store.ring[EventList(f)] \in Seq(TCB)
      /\ Ordered(store.ring[EventList(f)], EventItemValue)
  BY ListNames, ListsDisjoint DEF Typed, Stores, EventsSorted
<1>4. store'.ring[EventList(f)] =
        IF EventList(f) = EventList(e)
        THEN ViewInsert(store.ring[EventList(f)], EventItemValue, t)
        ELSE store.ring[EventList(f)]
  BY <1>3 DEF InsertEvent, Typed, Stores
<1>5. Ordered(ViewInsert(store.ring[EventList(f)], EventItemValue, t),
              EventItemValue)
  BY <1>3, EventItemType, ViewInsertOrdered
<1>. QED BY <1>3, <1>4, <1>5

LEMMA EventsStep ==
  ASSUME Typed, LockInv, StoreInv, Cached, DelayInv,
         "vTaskPrioritySet" \notin Include, EventsSorted, Next
  PROVE  EventsSorted'
<1>1. Typed' /\ StoreInv'
  BY TypeStep, StoreStep
<1>2. CASE \E t \in TCB : PlaceEventItem(t)
  BY <1>2, InsertItemOrder DEF PlaceEventItem, taskVars
<1>3. CASE \A t \in TCB : ~PlaceEventItem(t)
  <2>. SUFFICES ASSUME NEW e \in Event
                PROVE  Ordered(store'.ring[EventList(e)], EventItemValue')
    BY DEF EventsSorted
  <2>1. Ordered(store'.ring[EventList(e)], EventItemValue)
    BY <1>1, <1>3, EventOrderStep DEF EventsSorted, EventsKeepOrder
  <2>2. /\ EventList(e) \in EventLists /\ EventList(e) \in Lists
        /\ EventList(e) # NULL
    BY ListNames, ListsDisjoint
  <2>3. store'.ring[EventList(e)] \in Seq(TCB)
    BY <1>1, <2>2 DEF Typed, Stores
  <2>4. ASSUME NEW t \in TCB, Contains(store'.ring[EventList(e)], t)
        PROVE  EventItemValue'[t] = EventItemValue[t]
    <3>1. store'.event[t] = EventList(e)
      BY <1>1, <2>2, <2>4 DEF StoreInv, StoreConsistent, StoreOK
    <3>2. uxPriority'[t] = uxPriority[t]
      BY <2>2, <3>1, PriorityStep DEF PrioritiesKept
    <3>. QED BY <3>2 DEF EventItemValue
  <2>5. PICK other : other = EventItemValue'
    OBVIOUS
  <2>6. Ordered(store'.ring[EventList(e)], other)
    BY <2>1, <2>3, <2>4, <2>5, OrderedSame
  <2>. QED BY <2>5, <2>6
<1>. QED BY <1>2, <1>3

(* In a build without vTaskPrioritySet the list of the tasks that wait for an
   event is sorted by priority, so that xTaskRemoveFromEventList, which takes
   the head, unblocks the most urgent of them. *)
THEOREM MostUrgentWaitsFirst ==
  "vTaskPrioritySet" \notin Include => (Spec => []EventListsOrdered)
<1>. SUFFICES ASSUME "vTaskPrioritySet" \notin Include
              PROVE  Spec => []EventListsOrdered
  OBVIOUS
<1>1. Init => EventsSorted
  <2>. SUFFICES ASSUME Init PROVE EventsSorted
    OBVIOUS
  <2>1. \A e \in Event : store.ring[EventList(e)] = <<>>
    BY ListNames, ListsDisjoint DEF Init, EmptyStore
  <2>. QED BY <2>1 DEF EventsSorted, Ordered
<1>2. EventsSorted /\ UNCHANGED vars => EventsSorted'
  BY DEF EventsSorted, EventItemValue, vars, listVars, taskVars
<1>3. Typed /\ LockInv /\ StoreInv /\ DispatchInv /\ DelayInv
        /\ EventsSorted /\ [Next]_vars => EventsSorted'
  BY <1>2, EventsStep DEF DispatchInv, DispatchInvIf
<1>4. Typed /\ EventsSorted => EventListsOrdered
  <2>. SUFFICES ASSUME Typed, EventsSorted, NEW e \in Event,
                       NEW i \in 1 .. Len(store.ring[EventList(e)]),
                       NEW j \in 1 .. Len(store.ring[EventList(e)]), i < j
                PROVE  uxPriority[store.ring[EventList(e)][i]]
                         >= uxPriority[store.ring[EventList(e)][j]]
    BY DEF EventListsOrdered
  <2>1. store.ring[EventList(e)] \in Seq(TCB)
    BY ListNames, ListsDisjoint DEF Typed, Stores
  <2>2. PICK t \in TCB : t = store.ring[EventList(e)][i]
    BY <2>1, ElementOfSeq
  <2>3. PICK u \in TCB : u = store.ring[EventList(e)][j]
    BY <2>1, ElementOfSeq
  <2>4. EventItemValue[t] <= EventItemValue[u]
    BY <2>2, <2>3 DEF EventsSorted, Ordered
  <2>5. uxPriority[t] \in Nat /\ uxPriority[u] \in Nat
    BY DEF Typed, Priority
  <2>6. uxPriority[t] >= uxPriority[u]
    BY <2>4, <2>5, EventItemType, PrioritiesAssumption
  <2>. QED BY <2>2, <2>3, <2>6
<1>. QED BY <1>1, <1>3, <1>4, Invariance, StoreInvariance, DispatchInvariance,
            DelayInvariance, PTL DEF Spec

-----------------------------------------------------------------------------
(* What the trace harness validates. *)

LEMMA RingOwners ==
  ASSUME Typed, StoreInv
  PROVE  /\ \A l \in Lists : /\ store.ring[l] \in Seq(TCB)
                             /\ Range(store.ring[l]) \subseteq TCB
                             /\ IsInjective(store.ring[l])
         /\ \A l \in GenericLists, t \in TCB :
               t \in Range(store.ring[l]) <=> store.generic[t] = l
         /\ \A l \in EventLists, t \in TCB :
               t \in Range(store.ring[l]) <=> store.event[t] = l
<1>1. ASSUME NEW l \in Lists
      PROVE  /\ store.ring[l] \in Seq(TCB)
             /\ Range(store.ring[l]) \subseteq TCB
             /\ \A t : t \in Range(store.ring[l]) <=> Contains(store.ring[l], t)
  <2>1. store.ring[l] \in Seq(TCB)
    BY DEF Typed, Stores
  <2>2. DOMAIN store.ring[l] = 1 .. Len(store.ring[l])
    BY <2>1, LenProperties
  <2>. QED BY <2>1, <2>2, ElementOfSeq DEF Range, Contains
<1>2. GenericLists \subseteq Lists /\ EventLists \subseteq Lists
  BY DEF Lists
<1>. QED BY <1>1, <1>2 DEF StoreInv, StoreConsistent, StoreOK

LEMMA ListsAccepted ==
  ASSUME Typed, StoreInv, DelayInv
  PROVE  ListsValid
<1>1. ASSUME NEW l \in Lists
      PROVE  ContainersExact(l)
  <2>1. l \notin GenericLists => l \in EventLists
    BY DEF Lists
  <2>. QED BY <2>1, RingOwners DEF ContainersExact
<1>2. ASSUME NEW p \in Priority,
             NEW t \in Range(store.ring[pxReadyTasksLists(p)])
      PROVE  uxPriority[t] = p
  <2>1. /\ pxReadyTasksLists(p) \in GenericLists
        /\ pxReadyTasksLists(p) \in Lists
        /\ pxReadyTasksLists(p) # NULL
    BY ListNames, ListsDisjoint
  <2>2. t \in TCB /\ store.generic[t] = pxReadyTasksLists(p)
    BY <2>1, RingOwners
  <2>3. uxPriority[t] \in Priority
    BY <2>2 DEF Typed
  <2>. QED BY <2>1, <2>2, <2>3, ListNames DEF StoreInv, Placement
<1>3. ASSUME NEW l \in DelayLists
      PROVE  KeysNondecreasing(l)
  <2>1. l \in Lists
    BY ListNames, ListsDisjoint
  <2>2. Len(store.ring[l]) \in Nat
    BY <2>1, RingOwners, LenProperties
  <2>3. Ordered(store.ring[l], xItemValue)
    BY DEF DelayInv, DelaysSorted
  <2>. QED BY <2>2, <2>3 DEF Ordered, KeysNondecreasing
<1>. QED BY <1>1, <1>2, <1>3 DEF ListsValid, PrioritiesMatch

LEMMA ItemsAccepted ==
  ASSUME Typed, StoreInv
  PROVE  ItemsOnce
<1>. SUFFICES ASSUME NEW t \in TCB
              PROVE  /\ {l \in GenericLists : t \in Range(store.ring[l])}
                          = {store.generic[t]} \ {NULL}
                     /\ {l \in EventLists : t \in Range(store.ring[l])}
                          = {store.event[t]} \ {NULL}
  BY DEF ItemsOnce
<1>1. /\ store.generic[t] \in GenericLists \cup {NULL}
      /\ store.event[t] \in EventLists \cup {NULL}
      /\ NULL \notin GenericLists /\ NULL \notin EventLists
  BY ListsDisjoint DEF Typed, Stores
<1>. QED BY <1>1, RingOwners

(* Some priority is the highest that is ready: the least of those that bound
   the ready ones. *)
LEMMA SomeHighest ==
  ASSUME Typed, StoreInv, DispatchInv, xSchedulerRunning
  PROVE  \E p \in HighestReady : p <= uxTopReadyPriority
<1> DEFINE Bounds == {n \in Nat : \A p \in Priority : ReadyAt(p) => p <= n}
           m == Min(Bounds)
<1>1. \A p \in Priority : ReadyAt(p) => p <= uxTopReadyPriority
  BY ReadyMembers DEF StoreInv, DispatchInv, DispatchInvIf, Cached
<1>2. PICK first \in Priority : ReadyAt(first)
  <2>1. Idle \in TCB /\ store.generic[Idle] \in ReadyLists
    BY DEF DispatchInv, DispatchInvIf, IdleReady, TCB
  <2>2. PICK p \in Priority : store.generic[Idle] = pxReadyTasksLists(p)
    BY <2>1 DEF ReadyLists
  <2>. QED BY <2>1, <2>2, ReadyMembers DEF StoreInv
<1>3. uxTopReadyPriority \in Bounds /\ Bounds \in SUBSET Nat
  BY <1>1 DEF Typed, Priority
<1>4. m \in Bounds /\ \A n \in Bounds : m <= n
  BY <1>3, MinimumOfNaturals
<1>5. m \in Nat /\ \A p \in Priority : ReadyAt(p) => p <= m
  BY <1>4
<1>6. m - 1 \notin Bounds
  BY <1>4, <1>5
<1>. HIDE DEF m
<1>7. \E p \in Priority : ReadyAt(p) /\ p = m
  <2>1. CASE m = 0
    BY <1>2, <1>5, <2>1 DEF Priority
  <2>2. CASE m # 0
    <3>1. m - 1 \in Nat
      BY <1>5, <2>2
    <3>2. PICK p \in Priority : ReadyAt(p) /\ ~(p <= m - 1)
      BY <1>6, <3>1
    <3>3. p <= m
      BY <1>5, <3>2
    <3>. QED BY <1>5, <3>2, <3>3 DEF Priority
  <2>. QED BY <2>1, <2>2
<1>. QED BY <1>1, <1>5, <1>7 DEF HighestReady

(* Between two calls the current task is the right one and is of the priority
   from which the next switch would search, or the port owes a switch. *)
LEMMA RightUnlessOwed ==
  ASSUME Typed, LockInv, DispatchInv, Boundary, ~YieldPending
  PROVE  HighestRuns(TRUE)
<1>1. /\ xSchedulerRunning /\ phase = "run" /\ uxSchedulerSuspended = 0
      /\ pxCurrentTCB \in TCB /\ pxCurrentTCB # NULL
  BY NullAssumption DEF Boundary, InterruptsEnabled, LockInv, TCB
<1>2. pc[pxCurrentTCB] \notin YieldAhead /\ ~yieldPending
  BY <1>1 DEF LockInv, WindowsAlone, Windows, YieldAhead, YieldPending
<1>3. ~xMissedYield /\ ~yieldRequired
  BY <1>1 DEF DispatchInv, DispatchInvIf, HeldBack
<1>. QED BY <1>1, <1>2, <1>3
         DEF DispatchInv, DispatchInvIf, SwitchOwed, SwitchNoted

LEMMA TopReadyAccepted ==
  ASSUME Typed, LockInv, StoreInv, DispatchInv, Boundary
  PROVE  TopReadyValid
<1>1. xSchedulerRunning /\ pxCurrentTCB \in TCB
  BY DEF Boundary, InterruptsEnabled, LockInv
<1>2. CASE YieldPending
  <2>1. PICK p \in HighestReady : p <= uxTopReadyPriority
    BY <1>1, SomeHighest
  <2>2. p \in Int /\ uxTopReadyPriority \in Int
    BY DEF HighestReady, Priority, Typed
  <2>. QED BY <1>2, <2>1, <2>2 DEF TopReadyValid
<1>3. CASE ~YieldPending
  <2> DEFINE p == uxPriority[pxCurrentTCB]
  <2>1. HighestRuns(TRUE)
    BY <1>3, RightUnlessOwed
  <2>2. p \in Priority
    BY <1>1 DEF Typed
  <2>3. ReadyAt(p) /\ \A q \in Priority : ReadyAt(q) => q <= p
    BY <1>1, <2>1, <2>2, ReadyMembers DEF StoreInv, HighestRuns
  <2>4. p <= uxTopReadyPriority /\ uxTopReadyPriority <= p
    BY <1>1, <2>1, <2>2 DEF HighestRuns, DispatchInv, DispatchInvIf,
                                Cached
  <2>5. uxTopReadyPriority = p
    BY <2>2, <2>4 DEF Typed, Priority
  <2>6. p \in HighestReady
    BY <2>2, <2>3 DEF HighestReady
  <2>. QED BY <1>3, <2>5, <2>6 DEF TopReadyValid
<1>. QED BY <1>2, <1>3

LEMMA CurrentAccepted ==
  ASSUME Typed, LockInv, StoreInv, DispatchInv, DelayInv, Boundary
  PROVE  CurrentValid
<1>1. pxCurrentTCB \in TCB /\ pxCurrentTCB # NULL
  BY NullAssumption DEF Boundary, InterruptsEnabled, LockInv, TCB
<1>2. pxCurrentTCB \in allocated
  BY <1>1 DEF StoreInv, CurrentAllocated
<1>3. uxPriority[pxCurrentTCB] < configMAX_PRIORITIES
  BY <1>1, PrioritiesAssumption DEF Typed, Priority
<1>4. ~YieldPending => HighestRuns(TRUE)
  BY RightUnlessOwed
<1>5. ASSUME store.generic[pxCurrentTCB]
                # pxReadyTasksLists(uxPriority[pxCurrentTCB])
      PROVE  LeftReadyList(pxCurrentTCB)
  <2>1. phase = "run" /\ uxSchedulerSuspended = 0
    BY DEF Boundary, InterruptsEnabled
  <2>2. pc[pxCurrentTCB] \notin Windows
    BY <1>1, <2>1 DEF LockInv, WindowsAlone
  <2>3. pc[pxCurrentTCB] # "insert" /\ ~BetweenLists(pxCurrentTCB)
    BY <2>2 DEF Windows, BetweenLists
  <2>4. store.generic[pxCurrentTCB] \in
           DelayLists \cup {xSuspendedTaskList, xTasksWaitingTermination}
    BY <1>1, <1>2, <1>5, <2>3 DEF StoreInv, Placement
  <2>5. Delayed(pxCurrentTCB) <=> ticksLeft[pxCurrentTCB] > 0
    BY <1>1, <2>1, <2>3 DEF DelayInv, NoneDue, TimersHeld, WakePhases
  <2>6. DelayLists = {pxDelayedTaskList, pxOverflowDelayedTaskList}
    BY DEF DelayInv, ListsApart, Typed, DelayLists
  <2>. QED BY <2>4, <2>5, <2>6 DEF LeftReadyList, Delayed
<1>. QED BY <1>2, <1>3, <1>4, <1>5 DEF CurrentValid, HighestRuns

(* The scheduler's data is, whenever a call has ended and the scheduler is not
   suspended, as the trace harness demands of the states it builds by hand:
   the delay lists have their roles and their order, every item is in the one
   list its container names, uxTopReadyPriority is exact unless a switch is
   owed, and a current task that is not ready is owed one and is in a delay
   list, or where vTaskSuspend, vTaskDelete or a wait without limit put it. *)
THEOREM HarnessHolds == Spec => []HarnessAccepts
<1>1. Typed /\ LockInv /\ StoreInv /\ DispatchInv /\ DelayInv
        => HarnessAccepts
  <2>. SUFFICES ASSUME Typed, LockInv, StoreInv, DispatchInv, DelayInv,
                       Boundary
                PROVE  /\ RolesPartition /\ ListsValid /\ ItemsOnce
                       /\ TopReadyValid /\ CurrentValid
    BY DEF HarnessAccepts
  <2>1. RolesPartition
    BY DEF RolesPartition, DelayInv, ListsApart, Typed, DelayLists
  <2>. QED BY <2>1, ListsAccepted, ItemsAccepted, TopReadyAccepted,
              CurrentAccepted
<1>. QED BY <1>1, Invariance, StoreInvariance, DispatchInvariance,
            DelayInvariance, PTL

=============================================================================

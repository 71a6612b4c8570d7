-------------------------- MODULE LifecycleProofs --------------------------
(***************************************************************************)
(* Proofs about Lifecycle: whatever main() does to its tasks before the    *)
(* start, the scheduler starts into a sound state or meets one of the      *)
(* faults, and these come of nothing else than what FaultsExplained names; *)
(* every block of the heap is accounted for; and vTaskCleanUpResources     *)
(* frees all but the tasks it does not look at.                            *)
(***************************************************************************)
EXTENDS KernelProofs, Lifecycle

(* Until the scheduler starts nothing waits for an event: a task is ready,
   suspended or deleted. *)
NothingWaits == \A t \in TCB : store.event[t] = NULL

(* No task that is ready has a higher priority than p. *)
NoneAbove(p) ==
  \A t \in TCB, q \in Priority :
    store.generic[t] = pxReadyTasksLists(q) => q <= p

(* pxCurrentTCB before the start.  It is NULL before the first creation and
   while the only task is suspended or, after that, deleted; else it is the
   task to start, or a deleted task it was left on.  A ready task of a higher
   priority than its task has made the port note a switch. *)
SetupCurrent ==
  IF pxCurrentTCB = NULL
  THEN /\ uxCurrentNumberOfTasks <= 1
       /\ \A t \in TCB : store.generic[t] \notin ReadyLists
  ELSE /\ pxCurrentTCB \in allocated
       /\ store.generic[pxCurrentTCB] \in
            {pxReadyTasksLists(uxPriority[pxCurrentTCB]),
             xTasksWaitingTermination}
       /\ yieldPending \/ NoneAbove(uxPriority[pxCurrentTCB])

(* While main() sets the tasks up. *)
SetupInv ==
  /\ Typed /\ LockInv /\ ~xSchedulerRunning
  /\ StoreConsistent /\ Placement /\ NothingWaits
  /\ HeldBack /\ Cached /\ IdleReady /\ CountsRight
  /\ SetupCurrent

(* While the scheduler runs.  The search of the next switch may start above the
   highest ready priority: vTaskSuspend before the start leaves
   uxTopReadyPriority where the task that is no longer ready had put it. *)
RunningInv ==
  /\ Typed /\ LockInv /\ StoreInv /\ DispatchInvIf(FALSE)
  /\ xSchedulerRunning

(* When a task has ended the scheduler, no task is on its way between lists. *)
EndedInv ==
  /\ allocated \subseteq TCB
  /\ uxPriority \in [TCB -> Priority] /\ uxTopUsedPriority \in Priority
  /\ Placement /\ \A t \in TCB : ~BetweenLists(t)

LifeInv ==
  /\ IsFiniteSet(allocated)
  /\ stage \in {"setup", "running", "ended", "cleaned"}
  /\ fault # "none" => stage \in {"setup", "running"}
  /\ Setup => SetupInv
  /\ Running => RunningInv
  /\ stage = "ended" => EndedInv
  /\ HeapBalanced /\ CleanUpComplete /\ FaultsExplained

-----------------------------------------------------------------------------
(* The search of vTaskSwitchContext before the start *)

LEMMA MaximumOfNaturals ==
  ASSUME NEW n \in Nat, NEW S \in SUBSET (0 .. n), S # {}
  PROVE  Max(S) \in S /\ \A y \in S : y <= Max(S)
<1> DEFINE T == {n - y : y \in S}
           m == n - Min(T)
<1>1. T \in SUBSET Nat /\ T # {}
  <2>1. \A y \in S : n - y \in Nat
    OBVIOUS
  <2>. QED BY <2>1
<1>2. Min(T) \in T /\ \A y \in T : Min(T) <= y
  BY <1>1, MinimumOfNaturals
<1>3. \A y \in S : n - y \in T /\ y \in Int
  OBVIOUS
<1>4. m \in S
  <2>1. PICK y \in S : Min(T) = n - y
    BY <1>2
  <2>2. y \in Int /\ m = y
    BY <2>1
  <2>. QED BY <2>2
<1>5. Min(T) \in Int
  BY <1>1, <1>2
<1>. HIDE DEF T
<1>6. \A y \in S : m >= y
  BY <1>2, <1>3, <1>5
<1>. HIDE DEF m
<1>7. \E x \in S : \A y \in S : x >= y
  BY <1>4, <1>6
<1>8. Max(S) \in S /\ \A y \in S : Max(S) >= y
  BY <1>7 DEF Max
<1>. QED BY <1>8

(* It finds the highest ready priority in the store L, or leaves the array when
   no task is ready. *)
LEMMA SwitchInSetupEffect ==
  ASSUME NEW L \in Stores, StoreOK(L), uxTopReadyPriority \in Priority,
         \A t \in TCB, p \in Priority :
            L.generic[t] = pxReadyTasksLists(p) => p <= uxTopReadyPriority,
         SwitchInSetup(L)
  PROVE  \/ /\ fault' = "search"
            /\ \A p \in Priority : ~ReadyAt(p)'
         \/ /\ fault' = fault
            /\ store' \in Stores /\ StoreOK(store')
            /\ store'.generic = L.generic /\ store'.event = L.event
            /\ uxTopReadyPriority' \in Priority /\ pxCurrentTCB' \in TCB
            /\ L.generic[pxCurrentTCB'] = pxReadyTasksLists(uxTopReadyPriority')
            /\ \A t \in TCB, p \in Priority :
                  L.generic[t] = pxReadyTasksLists(p) =>
                     p <= uxTopReadyPriority'
<1> DEFINE held == {p \in 0 .. uxTopReadyPriority :
                      ~IsEmpty(L, pxReadyTasksLists(p))}
<1>1. /\ uxTopReadyPriority \in Nat
      /\ \A p \in 0 .. uxTopReadyPriority : p \in Priority
      /\ \A p \in Priority : p \in Nat
  BY PrioritiesAssumption DEF Priority
<1>2. \A p \in Priority :
         ~IsEmpty(L, pxReadyTasksLists(p)) <=>
            \E t \in TCB : L.generic[t] = pxReadyTasksLists(p)
  BY RingMembers, ListNames
<1>3. \A p \in Priority : ~IsEmpty(L, pxReadyTasksLists(p)) => p \in held
  BY <1>1, <1>2
<1>4. CASE held = {}
  <2>1. fault' = "search" /\ store' = L
    BY <1>4 DEF SwitchInSetup
  <2>. QED BY <1>3, <1>4, <2>1 DEF ReadyAt
<1>5. CASE held # {}
  <2>1. held \in SUBSET (0 .. uxTopReadyPriority)
    OBVIOUS
  <2>2. Max(held) \in held /\ \A p \in held : p <= Max(held)
    BY <1>1, <1>5, <2>1, MaximumOfNaturals
  <2>3. PICK m \in held : m = Max(held) /\ \A p \in held : p <= m
    BY <2>2
  <2> DEFINE l == pxReadyTasksLists(m)
  <2>4. /\ uxTopReadyPriority' = m
        /\ pxCurrentTCB' = OwnerOfHead(L, l)
        /\ store' = NextEntry(L, l)
        /\ fault' = fault
    BY <1>5, <2>3 DEF SwitchInSetup
  <2>5. m \in Priority /\ ~IsEmpty(L, l)
    BY <1>1
  <2>6. l \in Lists /\ l \in GenericLists
    BY <2>5, ListNames, ListsDisjoint
  <2>. HIDE DEF l, held
  <2>7. /\ store' \in Stores /\ StoreOK(store')
        /\ store'.generic = L.generic /\ store'.event = L.event
    BY <2>4, <2>5, <2>6, NextEntryType, NextEntryOK
  <2>8. pxCurrentTCB' \in TCB /\ L.generic[pxCurrentTCB'] = l
    BY <2>4, <2>5, <2>6, OwnerOfHeadOK
  <2>9. \A t \in TCB, p \in Priority :
           L.generic[t] = pxReadyTasksLists(p) => p <= m
    BY <1>2, <1>3, <2>3
  <2>. QED BY <2>4, <2>5, <2>7, <2>8, <2>9 DEF l
<1>. QED BY <1>4, <1>5

-----------------------------------------------------------------------------
(* What main() does before the start, operation by operation *)

LEMMA SetupQuiet ==
  ASSUME SetupInv
  PROVE  /\ phase = "run" /\ uxSchedulerSuspended = 0
         /\ \A t \in TCB : pc[t] = "app" /\ ~BetweenLists(t)
         /\ NULL \notin TCB /\ NULL \notin allocated
  BY NullAssumption
     DEF SetupInv, LockInv, QuietBeforeStart, BetweenLists, TCB, Typed

LEMMA SetupFrame ==
  ASSUME SetupInv,
         UNCHANGED <<suspendVars, loopVars, pc, xSchedulerRunning>>,
         Typed', \A t \in TCB : store'.event[t] = NULL,
         StoreConsistent', Placement', Cached', CountsRight',
         Idle \notin allocated', SetupCurrent'
  PROVE  SetupInv'
<1>. USE DEF suspendVars, loopVars
<1>1. /\ phase = "run" /\ uxSchedulerSuspended = 0 /\ ~xSchedulerRunning
      /\ \A t \in TCB : pc[t] = "app"
  BY SetupQuiet DEF SetupInv
<1>2. LockInv'
  BY <1>1 DEF LockInv, WindowsAlone, QuietBeforeStart, MaskedUnsuspended,
              TickOutsideWindows, ReplayedTickCounted, LockHolder, Windows
<1>3. HeldBack'
  BY ListNames, ListsDisjoint DEF SetupInv, HeldBack
<1>4. IdleReady'
  BY <1>1 DEF SetupInv, IdleReady
<1>. QED BY <1>1, <1>2, <1>3, <1>4 DEF SetupInv, NothingWaits

(* A task moves from one list to another. *)
LEMMA SetupMoved ==
  ASSUME SetupInv, NEW t \in allocated, NEW l, Relinked(t, l),
         l \in {pxReadyTasksLists(uxPriority'[t]), xSuspendedTaskList,
                xTasksWaitingTermination},
         \A u \in TCB : store'.event[u] = NULL,
         \A u \in TCB : u # t => uxPriority'[u] = uxPriority[u],
         UNCHANGED <<allocated, pc>>
  PROVE  Placement' /\ Idle \notin allocated'
<1>1. \A u \in TCB : ~BetweenLists(u) /\ ~BetweenLists(u)'
  BY SetupQuiet DEF BetweenLists
<1>2. Placement'
  BY <1>1 DEF SetupInv, Placement, Relinked
<1>. QED BY <1>2 DEF SetupInv, IdleReady

(* xTaskGenericCreate, called by main() or by vTaskStartScheduler. *)
LEMMA SetupCreates ==
  ASSUME SetupInv, Typed', NEW t \in TCB, NEW p \in RequestedPriority,
         Create(t, p), UNCHANGED <<pc, yieldPending>>
  PROVE  /\ Created(t) /\ uxPriority'[t] \in Priority
         /\ pxCurrentTCB' # NULL
         /\ pxCurrentTCB' = t \/ pxCurrentTCB' = pxCurrentTCB
         /\ \A u \in TCB : store'.event[u] = NULL
         /\ StoreConsistent' /\ Placement' /\ Cached' /\ CountsRight'
         /\ SetupCurrent'
<1>1. /\ Typed /\ LockInv /\ StoreConsistent /\ Placement /\ FirstFound
      /\ ~xSchedulerRunning
  <2>1. pxCurrentTCB = NULL /\ uxCurrentNumberOfTasks = 0 => allocated = {}
    BY FS_EmptySet DEF SetupInv, CountsRight
  <2>. QED BY <2>1 DEF SetupInv, SetupCurrent, FirstFound
<1>2. /\ Created(t) /\ uxPriority'[t] = Capped(p)
      /\ store'.event = store.event
  BY <1>1, CreateEffect
<1>3. /\ StoreOK(store') /\ uxPriority'[t] \in Priority
      /\ allocated' = allocated \cup {t}
      /\ pxCurrentTCB' # NULL
  BY <1>1, CreateStore
<1>4. \A u \in TCB : store'.event[u] = NULL
  BY <1>2 DEF SetupInv, NothingWaits
<1>5. Placement'
  <2>1. \A u \in TCB : ~BetweenLists(u) /\ ~BetweenLists(u)'
    BY <1>4, SetupQuiet DEF BetweenLists
  <2>. QED BY <1>1, <1>2, <1>4, <2>1 DEF Placement, Created, Relinked
<1>6. Cached' /\ CountsRight'
  <2>1. Effect
    BY <1>1, <1>2 DEF Effect
  <2>. QED BY <1>1, <2>1, EffectCached, EffectCounted DEF SetupInv
<1>7. SetupCurrent'
  <2>1. /\ p \in Int /\ Capped(p) <= p
        /\ \A q \in Priority : q <= p => q <= Capped(p)
    BY PrioritiesAssumption DEF RequestedPriority, Capped, Priority
  <2>2. CASE pxCurrentTCB = NULL
    <3>1. pxCurrentTCB' = t
      BY <2>2 DEF Create
    <3>2. \A u \in TCB : store.generic[u] \notin ReadyLists
      BY <2>2 DEF SetupInv, SetupCurrent
    <3>3. NoneAbove(uxPriority[t])'
      BY <1>2, <1>3, <3>2, ListNames DEF NoneAbove, Created, Relinked, Priority
    <3>. QED BY <1>1, <1>2, <1>3, <3>1, <3>3, SetupQuiet
             DEF SetupCurrent, Created, Relinked
  <2>3. CASE pxCurrentTCB # NULL
    <3>1. /\ pxCurrentTCB \in allocated /\ pxCurrentTCB \in TCB
          /\ pxCurrentTCB # t /\ uxPriority[pxCurrentTCB] \in Priority
      BY <1>1, <1>2, <2>3 DEF SetupInv, SetupCurrent, Created, Typed
    <3>2. yieldPending \/ NoneAbove(uxPriority[pxCurrentTCB])
      BY <2>3 DEF SetupInv, SetupCurrent
    <3>3. CASE uxPriority[pxCurrentTCB] <= p
      <4>1. pxCurrentTCB' = t
        BY <1>1, <3>3 DEF Create
      <4>2. uxPriority[pxCurrentTCB] <= Capped(p)
        BY <2>1, <3>1, <3>3
      <4>3. yieldPending \/ NoneAbove(uxPriority[t])'
        BY <1>2, <1>3, <3>1, <3>2, <4>2, ListNames
           DEF NoneAbove, Created, Relinked, Priority
      <4>. QED BY <1>1, <1>2, <1>3, <1>4, <4>1, <4>3, SetupQuiet
               DEF SetupCurrent, Created, Relinked
    <3>4. CASE ~(uxPriority[pxCurrentTCB] <= p)
      <4>1. pxCurrentTCB' = pxCurrentTCB
        BY <1>1, <2>3, <3>4 DEF Create
      <4>2. Capped(p) <= uxPriority[pxCurrentTCB]
        BY <1>2, <1>3, <2>1, <3>1, <3>4 DEF Priority
      <4>3. yieldPending \/ NoneAbove(uxPriority[pxCurrentTCB])'
        BY <1>2, <1>3, <3>1, <3>2, <4>1, <4>2, ListNames
           DEF NoneAbove, Created, Relinked, Priority
      <4>4. store.generic[pxCurrentTCB] \in
              {pxReadyTasksLists(uxPriority[pxCurrentTCB]),
               xTasksWaitingTermination}
        BY <2>3 DEF SetupInv, SetupCurrent
      <4>. QED BY <1>2, <1>3, <1>4, <2>3, <3>1, <4>1, <4>3, <4>4
               DEF SetupCurrent, Created, Relinked
    <3>. QED BY <3>3, <3>4
  <2>. QED BY <2>2, <2>3
<1>8. StoreConsistent'
  BY <1>3 DEF StoreConsistent
<1>9. pxCurrentTCB' = t \/ pxCurrentTCB' = pxCurrentTCB
  BY DEF Create
<1>. QED BY <1>2, <1>3, <1>4, <1>5, <1>6, <1>7, <1>8, <1>9

LEMMA SetupCreateStep ==
  ASSUME SetupInv, NEW t \in Task, NEW p \in RequestedPriority,
         CreateBeforeStart(t, p)
  PROVE  SetupInv'
<1>1. /\ t \in TCB /\ Create(t, p)
      /\ UNCHANGED <<suspendVars, loopVars, pc, xSchedulerRunning,
                     yieldPending>>
  BY DEF CreateBeforeStart, Create, TCB
<1>2. Typed'
  BY BootTypes DEF Boot, SetupInv
<1>3. Idle \notin allocated'
  BY <1>1, IdleAssumption
     DEF SetupInv, IdleReady, Create
<1>. QED BY <1>1, <1>2, <1>3, SetupCreates, SetupFrame

(* vTaskSuspend and vTaskDelete take the task off the lists it is in. *)
LEMMA SetupMoves ==
  ASSUME SetupInv, NEW t \in Live, NEW l \in GenericLists, NEW M,
         M = InsertEndGeneric(RemoveEventIfLinked(RemoveGeneric(store, t), t),
                              l, t)
  PROVE  /\ t \in TCB /\ t \in Task /\ t \in allocated
         /\ store.generic[t] # xTasksWaitingTermination
         /\ store.generic[t] # NULL
         /\ M \in Stores /\ StoreOK(M)
         /\ \A u \in TCB : /\ M.event[u] = NULL
                           /\ M.generic[u] = IF u = t THEN l
                                             ELSE store.generic[u]
<1>1. /\ Typed /\ Placement /\ store \in Stores /\ StoreOK(store)
      /\ \A u \in TCB : store.event[u] = NULL
  BY DEF SetupInv, Typed, StoreConsistent, NothingWaits
<1>2. /\ t \in TCB /\ t \in Task /\ t \in allocated
      /\ store.generic[t] # xTasksWaitingTermination
  BY <1>1 DEF Live, Typed, TCB
<1>3. store.generic[t] # NULL
  BY <1>1, <1>2, SetupQuiet, InOneList
<1> DEFINE K == RemoveEventIfLinked(RemoveGeneric(store, t), t)
<1>4. K \in Stores
  BY <1>1, <1>2, UnlinkTaskType
<1>5. /\ StoreOK(InsertEndGeneric(K, l, t))
      /\ InsertEndGeneric(K, l, t).generic = [store.generic EXCEPT ![t] = l]
      /\ InsertEndGeneric(K, l, t).event = [store.event EXCEPT ![t] = NULL]
  BY <1>1, <1>2, <1>3, MoveTaskOK
<1>. HIDE DEF K
<1>6. M \in Stores
  BY <1>2, <1>4, InsertEndType DEF K
<1>7. \A u \in TCB : /\ M.event[u] = NULL
                     /\ M.generic[u] = IF u = t THEN l ELSE store.generic[u]
  BY <1>1, <1>5 DEF Stores, K
<1>. QED BY <1>2, <1>3, <1>5, <1>6, <1>7 DEF K

LEMMA SetupDeleteStep ==
  ASSUME SetupInv, NEW t \in Task, SetupDelete(t)
  PROVE  SetupInv'
<1>. USE DEF tickVars, delayVars, suspendVars, loopVars, runVars
<1> DEFINE l == xTasksWaitingTermination
<1>1. t \in Live /\ l \in GenericLists /\ l \notin ReadyLists
  BY ListNames DEF SetupDelete
<1>2. store' = InsertEndGeneric(
                 RemoveEventIfLinked(RemoveGeneric(store, t), t), l, t)
  BY DEF SetupDelete, Terminate
<1>3. /\ t \in TCB /\ t \in allocated
      /\ store.generic[t] # l /\ store' \in Stores /\ StoreOK(store')
      /\ \A u \in TCB : /\ store'.event[u] = NULL
                        /\ store'.generic[u] = IF u = t THEN l
                                               ELSE store.generic[u]
  BY <1>1, <1>2, SetupMoves
<1>. HIDE DEF l
<1>4. Typed'
  BY <1>3 DEF SetupInv, SetupDelete, Terminate, Typed
<1>5. Terminated(t)
  BY <1>3 DEF SetupDelete, Terminate, Terminated, Relinked, l
<1>6. Cached' /\ CountsRight'
  <2>1. Effect
    BY <1>3, <1>5 DEF Effect
  <2>. QED BY <1>4, <2>1, EffectCached, EffectCounted DEF SetupInv
<1>7. Placement' /\ Idle \notin allocated'
  BY <1>3, <1>5, SetupMoved DEF SetupDelete, Terminated, l
<1>8. SetupCurrent'
  <2>1. /\ UNCHANGED <<pxCurrentTCB, allocated, uxCurrentNumberOfTasks,
                       uxPriority, yieldPending>>
        /\ pxCurrentTCB # NULL => pxCurrentTCB \in TCB
    BY DEF SetupDelete, SetupInv, Typed
  <2>2. \A u \in TCB : store'.generic[u] \in ReadyLists =>
           store'.generic[u] = store.generic[u]
    BY <1>1, <1>3
  <2>3. \A p : NoneAbove(p) => NoneAbove(p)'
    BY <2>2, ListNames DEF NoneAbove
  <2>. QED BY <1>3, <2>1, <2>2, <2>3 DEF SetupInv, SetupCurrent, l
<1>. QED BY <1>3, <1>4, <1>6, <1>7, <1>8, SetupFrame
         DEF SetupDelete, StoreConsistent

LEMMA SetupResumeStep ==
  ASSUME SetupInv, NEW t \in Task, SetupResume(t)
  PROVE  /\ fault' \in {fault, "null"}
         /\ fault' = "null" =>
              uxCurrentNumberOfTasks' = 1 /\ pxCurrentTCB' = NULL
         /\ fault' # "null" => SetupInv'
<1>. USE DEF tickVars, delayVars, suspendVars, loopVars, runVars, taskVars
<1>1. /\ t \in allocated /\ t \in TCB /\ t # pxCurrentTCB
      /\ IsTaskSuspended(t) /\ Typed /\ StoreConsistent
      /\ AddTaskToReadyQueue(RemoveGeneric(store, t), t, uxPriority[t])
      /\ UNCHANGED taskVars
  BY DEF SetupResume, SetupInv, Live, TCB
<1>2. Readied(t) /\ store'.event = store.event
  BY <1>1, ResumeEffect
<1>3. CASE pxCurrentTCB = NULL
  <2>1. uxCurrentNumberOfTasks <= 1 /\ Cardinality(allocated) # 0
    BY <1>1, <1>3, FS_EmptySet DEF SetupInv, SetupCurrent, CountsRight
  <2>2. uxCurrentNumberOfTasks = Cardinality(allocated)
           /\ Cardinality(allocated) \in Nat
    BY FS_CardinalityType DEF SetupInv, CountsRight
  <2>3. uxCurrentNumberOfTasks = 1
    BY <2>1, <2>2
  <2>. QED BY <1>3, <2>3 DEF SetupResume
<1>4. CASE pxCurrentTCB # NULL
  <2>1. /\ store.generic[t] # NULL
        /\ pxReadyTasksLists(uxPriority[t]) \in GenericLists
    BY <1>1, ListNames, ListsDisjoint DEF IsTaskSuspended, Typed
  <2>2. StoreOK(store') /\ store' \in Stores /\ uxTopReadyPriority' \in Priority
    BY <1>1, <2>1, MoveGenericOK, ResumeGenericType
       DEF AddTaskToReadyQueue, Typed, StoreConsistent
  <2>3. Typed'
    BY <1>4, <2>2 DEF SetupInv, SetupResume, SetupYield, Typed
  <2>4. Cached' /\ CountsRight'
    <3>1. Effect
      BY <1>1, <1>2 DEF Effect
    <3>. QED BY <2>3, <3>1, EffectCached, EffectCounted DEF SetupInv
  <2>5. \A u \in TCB : store'.event[u] = NULL
    BY <1>2 DEF SetupInv, NothingWaits
  <2>6. Placement' /\ Idle \notin allocated'
    BY <1>1, <1>2, <2>5, SetupMoved DEF SetupResume, Readied
  <2>7. SetupCurrent'
    <3>1. /\ UNCHANGED <<pxCurrentTCB, allocated, uxPriority>>
          /\ pxCurrentTCB \in TCB /\ pxCurrentTCB \in allocated
          /\ yieldPending' = (yieldPending
                                \/ uxPriority[t] >= uxPriority[pxCurrentTCB])
      BY <1>4 DEF SetupResume, SetupYield, SetupInv, SetupCurrent, Typed
    <3>2. /\ uxPriority[t] \in Int /\ uxPriority[pxCurrentTCB] \in Int
      BY <1>1, <3>1 DEF Typed, Priority
    <3>3. CASE yieldPending
      BY <1>1, <1>2, <1>4, <3>1, <3>3
         DEF SetupInv, SetupCurrent, Readied, Relinked
    <3>4. CASE uxPriority[t] >= uxPriority[pxCurrentTCB]
      BY <1>1, <1>2, <1>4, <3>1, <3>4
         DEF SetupInv, SetupCurrent, Readied, Relinked
    <3>5. CASE ~yieldPending /\ ~(uxPriority[t] >= uxPriority[pxCurrentTCB])
      <4>1. uxPriority[t] <= uxPriority[pxCurrentTCB]
        BY <3>2, <3>5
      <4>2. NoneAbove(uxPriority[pxCurrentTCB])
        BY <1>4, <3>5 DEF SetupInv, SetupCurrent
      <4>3. uxPriority[t] \in Priority
        BY <1>1 DEF Typed
      <4>4. NoneAbove(uxPriority[pxCurrentTCB])'
        BY <1>2, <3>1, <4>1, <4>2, <4>3, ListNames
           DEF NoneAbove, Readied, Relinked
      <4>. QED BY <1>1, <1>2, <1>4, <3>1, <4>4
               DEF SetupInv, SetupCurrent, Readied, Relinked
    <3>. QED BY <3>3, <3>4, <3>5
  <2>8. StoreConsistent'
    BY <2>2 DEF StoreConsistent
  <2>9. SetupInv'
    BY <2>3, <2>4, <2>5, <2>6, <2>7, <2>8, SetupFrame DEF SetupResume
  <2>. QED BY <1>4, <2>9 DEF SetupResume, Setup
<1>. QED BY <1>3, <1>4

LEMMA SetupPrioritySetStep ==
  ASSUME SetupInv, NEW t \in Task, NEW p \in RequestedPriority,
         SetupPrioritySet(t, p)
  PROVE  SetupInv'
<1>. USE DEF tickVars, delayVars, suspendVars, loopVars, runVars
<1>1. PICK new \in Priority : new = Capped(p)
  BY CappedType DEF RequestedPriority
<1>2. PICK old \in Priority : old = uxPriority[t]
  BY DEF SetupInv, Typed, TCB
<1>3. /\ t \in allocated /\ t \in TCB /\ Typed /\ StoreConsistent
      /\ store.generic[t] # xTasksWaitingTermination
      /\ uxPriority' = [uxPriority EXCEPT ![t] = new]
      /\ IF store.generic[t] = pxReadyTasksLists(uxPriority[t])
         THEN AddTaskToReadyQueue(RemoveGeneric(store, t), t, new)
         ELSE UNCHANGED listVars
      /\ TasksKept
      /\ yieldPending' = (yieldPending
           \/ IF new > old THEN t # pxCurrentTCB ELSE t = pxCurrentTCB)
      /\ UNCHANGED <<pxCurrentTCB, pc>>
  BY <1>1, <1>2 DEF SetupPrioritySet, SetupYield, SetupInv, Live, TCB, TasksKept
<1>4. /\ \/ Reprioritised(t)
         \/ Stayed /\ store.generic[t] # pxReadyTasksLists(old)
      /\ uxPriority'[t] = new
      /\ \A u \in TCB : u # t => uxPriority'[u] = uxPriority[u]
      /\ store'.event = store.event
      /\ StoreConsistent'
  BY <1>2, <1>3, RepriorityEffect
<1>5. Typed'
  <2>1. store' \in Stores /\ uxTopReadyPriority' \in Priority
    <3>1. RemoveGeneric(store, t) \in Stores
      BY <1>3, RemoveGenericType DEF Typed
    <3>2. CASE store.generic[t] = pxReadyTasksLists(uxPriority[t])
      BY <1>3, <3>1, <3>2, AddTaskType
    <3>. QED BY <1>3, <3>2 DEF Typed, listVars
  <2>2. uxPriority' \in [TCB -> Priority] /\ yieldPending' \in BOOLEAN
    BY <1>3 DEF Typed
  <2>. QED BY <1>3, <2>1, <2>2 DEF SetupPrioritySet, Typed
<1>6. Cached' /\ CountsRight'
  <2>1. Effect
    BY <1>3, <1>4 DEF Effect
  <2>. QED BY <1>3, <1>5, <2>1, EffectCached, EffectCounted DEF SetupInv
<1>7. \A u \in TCB : store'.event[u] = NULL
  BY <1>4 DEF SetupInv, NothingWaits
<1>8. Placement' /\ Idle \notin allocated'
  <2>1. CASE Reprioritised(t)
    BY <1>3, <1>4, <1>7, <2>1, SetupMoved DEF Reprioritised, TasksKept
  <2>2. CASE Stayed /\ store.generic[t] # pxReadyTasksLists(old)
    <3>1. \A u \in TCB : ~BetweenLists(u) /\ ~BetweenLists(u)'
      BY <1>3, SetupQuiet DEF BetweenLists
    <3>2. Placement'
      BY <1>2, <1>3, <1>4, <1>7, <2>2, <3>1
         DEF SetupInv, Placement, Stayed, TasksKept
    <3>. QED BY <1>3, <3>2 DEF SetupInv, IdleReady, TasksKept
  <2>. QED BY <1>4, <2>1, <2>2
<1>9. SetupCurrent'
  <2>1. CASE pxCurrentTCB = NULL
    <3>1. store.generic[t] # pxReadyTasksLists(old)
      BY <1>3, <2>1, ListNames DEF SetupInv, SetupCurrent
    <3>2. store'.generic = store.generic /\ TasksKept
      BY <1>2, <1>4, <3>1 DEF Reprioritised, Stayed
    <3>. QED BY <1>3, <2>1, <3>2 DEF SetupInv, SetupCurrent, TasksKept
  <2>2. CASE pxCurrentTCB # NULL
    <3>1. /\ pxCurrentTCB \in TCB /\ pxCurrentTCB \in allocated'
          /\ uxPriority[pxCurrentTCB] \in Priority
          /\ store.generic[pxCurrentTCB] \in
               {pxReadyTasksLists(uxPriority[pxCurrentTCB]),
                xTasksWaitingTermination}
      BY <1>3, <2>2 DEF SetupInv, SetupCurrent, Typed, TasksKept
    <3>2. store'.generic[pxCurrentTCB] \in
            {pxReadyTasksLists(uxPriority'[pxCurrentTCB]),
             xTasksWaitingTermination}
      BY <1>2, <1>3, <1>4, <3>1 DEF Reprioritised, Relinked, Stayed
    <3>3. yieldPending' \/ NoneAbove(uxPriority[pxCurrentTCB])'
      <4>1. CASE yieldPending
        BY <1>3, <4>1
      <4>2. CASE NoneAbove(uxPriority[pxCurrentTCB])
        <5>1. CASE t = pxCurrentTCB
          <6>1. CASE new > old
            <7>1. NoneAbove(new)'
              BY <1>2, <1>4, <4>2, <5>1, <6>1, ListNames
                 DEF NoneAbove, Reprioritised, Relinked, Stayed, Priority
            <7>. QED BY <1>3, <1>4, <5>1, <7>1 DEF NoneAbove
          <6>. QED BY <1>3, <5>1, <6>1
        <5>2. CASE t # pxCurrentTCB
          <6>1. CASE ~(new > old)
            <7>1. new <= old
              BY <6>1 DEF Priority
            <7>2. store.generic[t] = pxReadyTasksLists(old) =>
                     new <= uxPriority[pxCurrentTCB]
              BY <1>3, <3>1, <4>2, <7>1 DEF NoneAbove, Priority
            <7>3. NoneAbove(uxPriority[pxCurrentTCB])'
              BY <1>2, <1>3, <1>4, <3>1, <4>2, <5>2, <7>2, ListNames
                 DEF NoneAbove, Reprioritised, Relinked, Stayed
            <7>. QED BY <7>3
          <6>. QED BY <1>3, <5>2, <6>1
        <5>. QED BY <5>1, <5>2
      <4>. QED BY <2>2, <4>1, <4>2 DEF SetupInv, SetupCurrent
    <3>. QED BY <1>3, <2>2, <3>1, <3>2, <3>3 DEF SetupCurrent
  <2>. QED BY <2>1, <2>2
<1>. QED BY <1>4, <1>5, <1>6, <1>7, <1>8, <1>9, SetupFrame
         DEF SetupPrioritySet

LEMMA SetupSuspendStep ==
  ASSUME SetupInv, NEW t \in Task, SetupSuspend(t)
  PROVE  /\ fault' \in {"none", "search"}
         /\ fault' = "search" => \A p \in Priority : ~ReadyAt(p)'
         /\ fault' = "none" => SetupInv'
<1>. USE DEF tickVars, delayVars, suspendVars, loopVars, taskVars
<1> DEFINE l == xSuspendedTaskList
<1>1. t \in Live /\ l \in GenericLists /\ l \notin ReadyLists
        /\ l # xTasksWaitingTermination
  BY ListNames DEF SetupSuspend
<1>2. PICK M : M = InsertEndGeneric(
                 RemoveEventIfLinked(RemoveGeneric(store, t), t), l, t)
  OBVIOUS
<1>3. /\ t \in TCB /\ t \in allocated
      /\ store.generic[t] # xTasksWaitingTermination
      /\ M \in Stores /\ StoreOK(M)
      /\ \A u \in TCB : /\ M.event[u] = NULL
                        /\ M.generic[u] = IF u = t THEN l
                                          ELSE store.generic[u]
  BY <1>1, <1>2, SetupMoves
<1>4. /\ IF t = pxCurrentTCB /\ uxCurrentNumberOfTasks # 1
         THEN SwitchInSetup(M)
         ELSE /\ store' = M
              /\ pxCurrentTCB' = IF t = pxCurrentTCB THEN NULL ELSE pxCurrentTCB
              /\ UNCHANGED <<uxTopReadyPriority, fault>>
      /\ fault = "none"
      /\ UNCHANGED <<tickVars, delayVars, taskVars, suspendVars, loopVars,
                     xSchedulerRunning, pc, yieldPending, queueLock>>
  BY <1>2 DEF SetupSuspend, Setup
<1>5. \A u \in TCB, p \in Priority :
         M.generic[u] = pxReadyTasksLists(p) =>
            store.generic[u] = pxReadyTasksLists(p) /\ u # t
  BY <1>1, <1>3, ListNames
<1>. HIDE DEF l
<1>6. ASSUME store' \in Stores, StoreOK(store'),
             store'.generic = M.generic, store'.event = M.event,
             uxTopReadyPriority' \in Priority,
             pxCurrentTCB' \in TCB \cup {NULL},
             \A u \in TCB, p \in Priority :
                M.generic[u] = pxReadyTasksLists(p) => p <= uxTopReadyPriority',
             SetupCurrent'
      PROVE  SetupInv'
  <2>1. Typed'
    BY <1>4, <1>6 DEF SetupInv, Typed
  <2>2. Relinked(t, l) /\ \A u \in TCB : store'.event[u] = NULL
    BY <1>3, <1>6 DEF Relinked
  <2>3. Placement' /\ Idle \notin allocated'
    BY <1>3, <1>4, <2>2, SetupMoved DEF l
  <2>4. Cached'
    BY <1>6 DEF Cached
  <2>5. InList(xTasksWaitingTermination)' = InList(xTasksWaitingTermination)
    BY <1>1, <1>3, <1>6 DEF InList
  <2>6. CountsRight'
    BY <1>4, <2>5 DEF SetupInv, CountsRight
  <2>7. StoreConsistent'
    BY <1>6 DEF StoreConsistent
  <2>. QED BY <1>4, <1>6, <2>1, <2>2, <2>3, <2>4, <2>6, <2>7, SetupFrame
<1>7. /\ uxTopReadyPriority \in Priority /\ pxCurrentTCB \in TCB \cup {NULL}
      /\ \A u \in TCB, p \in Priority :
            M.generic[u] = pxReadyTasksLists(p) => p <= uxTopReadyPriority
  BY <1>5 DEF SetupInv, Typed, Cached
<1>8. CASE ~(t = pxCurrentTCB /\ uxCurrentNumberOfTasks # 1)
  <2>1. /\ store' = M /\ UNCHANGED <<uxTopReadyPriority, fault>>
        /\ pxCurrentTCB' = IF t = pxCurrentTCB THEN NULL ELSE pxCurrentTCB
    BY <1>4, <1>8
  <2>2. SetupCurrent'
    <3>1. CASE t = pxCurrentTCB
      <4>1. uxCurrentNumberOfTasks = 1 /\ Cardinality(allocated) = 1
        BY <1>8, <3>1 DEF SetupInv, CountsRight
      <4>2. allocated = {t}
        BY <1>3, <4>1, FS_Singleton DEF SetupInv, CountsRight
      <4>3. \A u \in TCB : u # t => store.generic[u] = NULL
        BY <4>2 DEF SetupInv, Placement
      <4>4. NULL \notin ReadyLists
        BY ListNames, ListsDisjoint
      <4>5. \A u \in TCB : M.generic[u] \notin ReadyLists
        BY <1>1, <1>3, <4>3, <4>4
      <4>. QED BY <1>4, <2>1, <3>1, <4>1, <4>5 DEF SetupCurrent
    <3>2. CASE t # pxCurrentTCB
      <4>1. \A p : NoneAbove(p) => NoneAbove(p)'
        BY <1>5, <2>1 DEF NoneAbove
      <4>2. CASE pxCurrentTCB = NULL
        BY <1>1, <1>3, <1>4, <2>1, <3>2, <4>2 DEF SetupInv, SetupCurrent
      <4>3. CASE pxCurrentTCB # NULL
        BY <1>3, <1>4, <1>7, <2>1, <3>2, <4>1, <4>3
           DEF SetupInv, SetupCurrent
      <4>. QED BY <4>2, <4>3
    <3>. QED BY <3>1, <3>2
  <2>3. pxCurrentTCB' \in TCB \cup {NULL}
    BY <1>7, <2>1
  <2>. QED BY <1>3, <1>4, <1>6, <1>7, <2>1, <2>2, <2>3
<1>9. CASE t = pxCurrentTCB /\ uxCurrentNumberOfTasks # 1
  <2>1. SwitchInSetup(M)
    BY <1>4, <1>9
  <2>2. \/ /\ fault' = "search"
           /\ \A p \in Priority : ~ReadyAt(p)'
        \/ /\ fault' = fault
           /\ store' \in Stores /\ StoreOK(store')
           /\ store'.generic = M.generic /\ store'.event = M.event
           /\ uxTopReadyPriority' \in Priority /\ pxCurrentTCB' \in TCB
           /\ M.generic[pxCurrentTCB'] = pxReadyTasksLists(uxTopReadyPriority')
           /\ \A u \in TCB, p \in Priority :
                 M.generic[u] = pxReadyTasksLists(p) =>
                    p <= uxTopReadyPriority'
    BY <1>3, <1>7, <2>1, SwitchInSetupEffect
  <2>3. ASSUME fault' # "search"
        PROVE  SetupInv'
    <3>1. PICK c \in TCB, q \in Priority :
             /\ c = pxCurrentTCB' /\ q = uxTopReadyPriority'
             /\ M.generic[c] = pxReadyTasksLists(q)
      BY <2>2, <2>3
    <3>2. store.generic[c] = pxReadyTasksLists(q)
      BY <1>5, <3>1
    <3>3. c \in allocated /\ q = uxPriority[c]
      <4>1. pxReadyTasksLists(q) # NULL /\ uxPriority[c] \in Priority
        BY ListNames, ListsDisjoint DEF SetupInv, Typed
      <4>2. c \in allocated /\ ~BetweenLists(c)
        BY <3>2, <4>1, SetupQuiet DEF SetupInv, Placement
      <4>. QED BY <3>2, <4>1, <4>2, ListNames DEF SetupInv, Placement
    <3>4. SetupCurrent'
      <4>1. NoneAbove(q)'
        BY <2>2, <2>3, <3>1 DEF NoneAbove
      <4>2. NoneAbove(uxPriority[pxCurrentTCB])'
        BY <1>4, <3>1, <3>3, <4>1 DEF NoneAbove
      <4>3. store'.generic[c] = pxReadyTasksLists(uxPriority'[c])
        BY <1>4, <2>2, <2>3, <3>1, <3>3
      <4>. QED BY <1>4, <3>1, <3>3, <4>2, <4>3, SetupQuiet DEF SetupCurrent
    <3>. QED BY <1>6, <2>2, <2>3, <3>4
  <2>. QED BY <1>4, <2>2, <2>3
<1>. QED BY <1>8, <1>9

(* vTaskStartScheduler establishes the invariant of the running scheduler,
   unless the task it starts is a deleted one. *)
LEMMA StartStep ==
  ASSUME SetupInv, Start
  PROVE  /\ fault' \in {"none", "deleted"}
         /\ fault' = "deleted" =>
              store'.generic[pxCurrentTCB'] = xTasksWaitingTermination
         /\ fault' = "none" => RunningInv'
<1>1. /\ Typed /\ LockInv /\ Idle \in TCB /\ 0 \in RequestedPriority
      /\ StartScheduler /\ Create(Idle, 0)
      /\ UNCHANGED <<pc, yieldPending>> /\ xSchedulerRunning'
      /\ phase' = phase /\ phase = "run"
      /\ fault' = IF store.generic[pxCurrentTCB'] = xTasksWaitingTermination
                  THEN "deleted" ELSE "none"
  BY SetupQuiet, PrioritiesAssumption
     DEF SetupInv, Start, StartScheduler, Create, loopVars, TCB,
         RequestedPriority
<1>2. Typed' /\ LockInv'
  BY <1>1, BootTypes, LockStep DEF Boot, Next
<1>3. /\ Created(Idle) /\ uxPriority'[Idle] \in Priority
      /\ pxCurrentTCB' # NULL
      /\ pxCurrentTCB' = Idle \/ pxCurrentTCB' = pxCurrentTCB
      /\ \A u \in TCB : store'.event[u] = NULL
      /\ StoreConsistent' /\ Placement' /\ Cached' /\ CountsRight'
      /\ SetupCurrent'
  BY <1>1, <1>2, SetupCreates
<1>4. PICK c \in TCB : c = pxCurrentTCB'
  BY <1>2, <1>3 DEF Typed
<1>5. /\ c \in allocated'
      /\ store'.generic[c] \in {pxReadyTasksLists(uxPriority'[c]),
                                xTasksWaitingTermination}
      /\ yieldPending' \/ NoneAbove(uxPriority[pxCurrentTCB])'
  BY <1>3, <1>4 DEF SetupCurrent
<1>6. /\ store'.generic[Idle] = pxReadyTasksLists(uxPriority'[Idle])
      /\ store'.generic[Idle] \in ReadyLists
      /\ c # Idle => store'.generic[c] = store.generic[c]
      /\ Idle \in allocated'
  BY <1>3, ListNames DEF Created, Relinked
<1>7. fault' = "deleted" => store'.generic[c] = xTasksWaitingTermination
  <2>1. store.generic[Idle] # xTasksWaitingTermination
    BY <1>1, ListNames, ListsDisjoint
       DEF SetupInv, IdleReady, Placement
  <2>. QED BY <1>1, <1>4, <1>6, <2>1
<1>8. ASSUME fault' = "none"
      PROVE  RunningInv'
  <2>1. store'.generic[c] = pxReadyTasksLists(uxPriority'[c])
    BY <1>1, <1>4, <1>5, <1>6, <1>8
  <2>2. store'.generic[c] \in ReadyLists
    BY <1>2, <2>1, ListNames DEF Typed
  <2>3. StoreInv'
    BY <1>1, <1>3, <1>4, <1>5, <2>2
       DEF StoreInv, EventPlacement, CurrentAllocated, ReadyBeforeStart,
           LoopCaller, RunningReady
  <2>4. HeldBack'
    BY <1>1, <1>3, ListNames, ListsDisjoint
       DEF SetupInv, HeldBack, Create, suspendVars, loopVars
  <2>5. IdleReady' /\ Counted'
    <3>1. pc'[Idle] = "app"
      BY <1>1, SetupQuiet
    <3>. QED BY <1>1, <1>3, <1>6, <3>1
             DEF IdleReady, IdlePoints, Counted, CountsRight
  <2>6. SwitchOwed(FALSE)' /\ FirstTop(FALSE)'
    <3>1. CASE yieldPending'
      BY <3>1 DEF SwitchOwed, SwitchNoted, FirstTop
    <3>2. CASE NoneAbove(uxPriority[pxCurrentTCB])'
      <4>1. HighestRuns(FALSE)'
        BY <1>4, <2>1, <3>2 DEF NoneAbove, HighestRuns
      <4>. QED BY <4>1 DEF SwitchOwed, FirstTop
    <3>. QED BY <1>5, <3>1, <3>2
  <2>. QED BY <1>1, <1>2, <1>3, <2>3, <2>4, <2>5, <2>6
           DEF RunningInv, DispatchInvIf
<1>. QED BY <1>1, <1>4, <1>7, <1>8

-----------------------------------------------------------------------------
(* The scheduler runs, and ends. *)

LEMMA RunningStep ==
  ASSUME RunningInv, [Next]_vars
  PROVE  RunningInv'
<1>1. Typed' /\ LockInv' /\ StoreInv' /\ DispatchInvIf(FALSE)'
  BY TypeStep, LockStep, StoreStep, DispatchStep DEF RunningInv
<1>2. xSchedulerRunning'
  <2>1. CASE Next
    BY <2>1, StartedByBoot
       DEF RunningInv, Boot, CreateBeforeStart, StartScheduler
  <2>2. CASE UNCHANGED vars
    BY <2>2 DEF RunningInv, vars, runVars
  <2>. QED BY <2>1, <2>2
<1>. QED BY <1>1, <1>2 DEF RunningInv

LEMMA EndStep ==
  ASSUME RunningInv, NEW c \in Task, EndScheduler(c)
  PROVE  EndedInv'
<1>. USE DEF listVars, taskVars, EndScheduler
<1>1. \A t \in TCB : ~BetweenLists(t)
  <2>1. \A t \in TCB : pc[t] \in Windows => t = c
    BY DEF RunningInv, LockInv, WindowsAlone, RunsApp, RunsAt, Runs
  <2>. QED BY <2>1 DEF BetweenLists, Windows, RunsApp, RunsAt
<1>2. /\ allocated \subseteq TCB /\ Placement
      /\ uxPriority \in [TCB -> Priority] /\ uxTopUsedPriority \in Priority
  BY DEF RunningInv, StoreInv, Typed
<1>3. Placement'
  BY <1>2 DEF Placement, BetweenLists
<1>. QED BY <1>1, <1>2, <1>3 DEF EndedInv, BetweenLists

(* vTaskCleanUpResources frees the tasks in the lists it looks at. *)
LEMMA CleanUpStep ==
  ASSUME IsFiniteSet(allocated), HeapBalanced, EndedInv, CleanUpResources
  PROVE  IsFiniteSet(allocated') /\ HeapBalanced' /\ CleanUpComplete'
<1> DEFINE freed == {t \in TCB : store.generic[t] \in ListsCleanedUp}
<1>1. /\ allocated' = allocated \ freed
      /\ heapUsed' = heapUsed - 2 * Cardinality(freed)
      /\ UNCHANGED uxTopUsedPriority
      /\ \A t \in TCB : store'.generic[t] =
            IF t \in freed THEN NULL ELSE store.generic[t]
  BY DEF CleanUpResources, DeleteTCBs
<1>2. /\ NULL \notin ListsCleanedUp
      /\ xTasksWaitingTermination \notin ListsCleanedUp
      /\ \A p \in Priority :
            /\ pxReadyTasksLists(p) \notin
                  DelayLists \cup {xSuspendedTaskList}
            /\ pxReadyTasksLists(p) \in ListsCleanedUp
                  <=> p <= uxTopUsedPriority
  <2>1. \A p \in 0 .. uxTopUsedPriority : p \in Priority
    BY PrioritiesAssumption DEF EndedInv, Priority
  <2>2. \A p \in Priority :
          p <= uxTopUsedPriority => p \in 0 .. uxTopUsedPriority
    BY DEF Priority
  <2>. QED BY <2>1, <2>2, ListNames, ListsDisjoint DEF ListsCleanedUp
<1>3. \A t \in TCB :
         IF t \in allocated
         THEN store.generic[t] \in
                DelayLists \cup {pxReadyTasksLists(uxPriority[t]),
                                 xSuspendedTaskList, xTasksWaitingTermination}
         ELSE store.generic[t] = NULL
  BY DEF EndedInv, Placement
<1>4. freed \subseteq allocated
  BY <1>2, <1>3
<1>. HIDE DEF freed
<1>5. /\ IsFiniteSet(allocated')
      /\ Cardinality(allocated') = Cardinality(allocated) - Cardinality(freed)
  <2>1. allocated \cap freed = freed
    BY <1>4
  <2>2. IsFiniteSet(allocated) /\ allocated' = allocated \ freed
    BY <1>1
  <2>. QED BY ONLY <2>1, <2>2, FS_Difference
<1>6. /\ HeapBalanced'
  <2>1. Cardinality(allocated) \in Nat /\ Cardinality(freed) \in Nat
    BY <1>4, FS_CardinalityType, FS_Subset
  <2>. QED BY <1>1, <1>5, <2>1 DEF HeapBalanced
<1>7. CleanUpComplete'
  <2>1. xTasksWaitingTermination # NULL
          /\ \A p \in Priority : pxReadyTasksLists(p) # NULL
    BY ListNames, ListsDisjoint
  <2>2. \A t \in TCB : t \in freed <=> store.generic[t] \in ListsCleanedUp
    BY DEF freed
  <2>3. ASSUME NEW t \in TCB
        PROVE  t \in allocated' <=>
                 \/ store'.generic[t] = xTasksWaitingTermination
                 \/ \E p \in Priority :
                       /\ p > uxTopUsedPriority
                       /\ store'.generic[t] = pxReadyTasksLists(p)
    <3>1. CASE t \notin allocated \/ t \in freed
      BY <1>1, <1>3, <2>1, <3>1
    <3>2. CASE t \in allocated /\ t \notin freed
      <4>1. PICK p \in Priority : p = uxPriority[t]
        BY DEF EndedInv
      <4>2. DelayLists \cup {xSuspendedTaskList} \subseteq ListsCleanedUp
        BY DEF ListsCleanedUp
      <4>3. store.generic[t] \in {pxReadyTasksLists(p),
                                  xTasksWaitingTermination}
        BY <1>3, <2>2, <3>2, <4>1, <4>2
      <4>4. CASE store.generic[t] = pxReadyTasksLists(p)
        <5>1. ~(p <= uxTopUsedPriority)
          BY <1>2, <2>2, <3>2, <4>4
        <5>2. p > uxTopUsedPriority
          BY <5>1 DEF EndedInv, Priority
        <5>. QED BY <1>1, <3>2, <4>4, <5>2
      <4>. QED BY <1>1, <3>2, <4>3, <4>4
    <3>. QED BY <3>1, <3>2
  <2>. QED BY <1>1, <2>3 DEF CleanUpComplete
<1>. QED BY <1>5, <1>6, <1>7

-----------------------------------------------------------------------------
(* The invariant *)

LEMMA LifeInitial == LifeInit => LifeInv
<1>. SUFFICES ASSUME LifeInit PROVE LifeInv
  OBVIOUS
<1>1. Init /\ heapUsed = 0 /\ stage = "setup" /\ fault = "none"
  BY DEF LifeInit
<1>2. Typed /\ LockInv /\ StoreInv /\ DispatchInv
  BY <1>1, InitTypes, InitLock, InitStore, InitDispatch
<1>3. IsFiniteSet(allocated) /\ Cardinality(allocated) = 0
        /\ uxCurrentNumberOfTasks = 0
  BY <1>1, FS_EmptySet DEF Init
<1>4. /\ ~xSchedulerRunning /\ pxCurrentTCB = NULL
      /\ \A t \in TCB : store.generic[t] = NULL /\ store.event[t] = NULL
  BY <1>1 DEF Init, EmptyStore
<1>5. SetupCurrent /\ NothingWaits
  BY <1>3, <1>4, ListNames, ListsDisjoint DEF SetupCurrent, NothingWaits
<1>6. SetupInv
  BY <1>2, <1>4, <1>5
     DEF SetupInv, StoreInv, DispatchInv, DispatchInvIf, Counted, CountsRight
<1>. QED BY <1>1, <1>3, <1>6
         DEF LifeInv, Running, HeapBalanced, CleanUpComplete, FaultsExplained

(* A creation that fails leaves all as it was, the heap included. *)
LEMMA LifeStutter ==
  ASSUME LifeInv, UNCHANGED <<vars, heapUsed, stage, fault>>
  PROVE  LifeInv'
<1>. USE DEF vars, tickVars, listVars, delayVars, taskVars, suspendVars,
             loopVars, runVars
<1>1. Setup' => SetupInv'
  <2>. SUFFICES ASSUME Setup' PROVE SetupInv'
    OBVIOUS
  <2>1. SetupInv
    BY DEF LifeInv, Setup
  <2>2. Typed'
    BY <2>1, StutterTypes DEF SetupInv
  <2>3. StoreConsistent' /\ Placement' /\ Cached' /\ CountsRight'
    BY <2>1 DEF SetupInv, StoreConsistent, Placement, BetweenLists, Cached,
                CountsRight, InList
  <2>4. SetupCurrent' /\ Idle \notin allocated'
    BY <2>1 DEF SetupInv, SetupCurrent, NoneAbove, IdleReady
  <2>5. \A t \in TCB : store'.event[t] = NULL
    BY <2>1 DEF SetupInv, NothingWaits
  <2>. QED BY <2>1, <2>2, <2>3, <2>4, <2>5, SetupFrame
<1>2. Running' => RunningInv'
  BY RunningStep DEF LifeInv, Running
<1>3. stage' = "ended" => EndedInv'
  BY DEF LifeInv, EndedInv, Placement, BetweenLists
<1>4. HeapBalanced' /\ CleanUpComplete' /\ FaultsExplained'
  BY DEF LifeInv, HeapBalanced, CleanUpComplete, FaultsExplained, ReadyAt
<1>. QED BY <1>1, <1>2, <1>3, <1>4 DEF LifeInv

(* A creation and the two blocks it takes. *)
LEMMA CreationBalanced ==
  ASSUME IsFiniteSet(allocated), HeapBalanced, NEW t, t \notin allocated,
         allocated' = allocated \cup {t}, Allocate
  PROVE  IsFiniteSet(allocated') /\ HeapBalanced'
<1>1. /\ IsFiniteSet(allocated')
      /\ Cardinality(allocated') = Cardinality(allocated) + 1
      /\ Cardinality(allocated) \in Nat
  BY FS_AddElement, FS_CardinalityType
<1>. QED BY <1>1 DEF HeapBalanced, Allocate

(* What the idle task takes off the tasks it gives back to the heap. *)
LEMMA ReapingBalanced ==
  ASSUME IsFiniteSet(allocated), HeapBalanced, allocated' \subseteq allocated,
         DeleteTCBs(allocated \ allocated')
  PROVE  IsFiniteSet(allocated') /\ HeapBalanced'
<1>1. PICK T : T = allocated'
  OBVIOUS
<1>2. /\ IsFiniteSet(T) /\ Cardinality(T) \in Nat
      /\ Cardinality(allocated) \in Nat
  BY <1>1, FS_Subset, FS_CardinalityType
<1>3. Cardinality(allocated \ T) = Cardinality(allocated) - Cardinality(T)
  <2>1. allocated \cap T = T
    BY <1>1
  <2>. QED BY <2>1, FS_Difference
<1>. QED BY <1>1, <1>2, <1>3 DEF HeapBalanced, DeleteTCBs

LEMMA SetupStage ==
  ASSUME LifeInv, Setup, stage' = "setup",
         IsFiniteSet(allocated'), HeapBalanced', FaultsExplained',
         fault' = "none" => SetupInv'
  PROVE  LifeInv'
  BY DEF LifeInv, Setup, Running, CleanUpComplete

LEMMA RunningStage ==
  ASSUME stage' = "running", IsFiniteSet(allocated'), HeapBalanced',
         FaultsExplained', fault' = "none" => RunningInv'
  PROVE  LifeInv'
  BY DEF LifeInv, Setup, Running, CleanUpComplete

LEMMA SetupLife ==
  ASSUME LifeInv, NEW t \in Task,
         \/ \E p \in RequestedPriority : SetupCreate(t, p)
         \/ SetupSuspend(t) \/ SetupResume(t) \/ SetupDelete(t)
         \/ \E p \in RequestedPriority : SetupPrioritySet(t, p)
  PROVE  LifeInv'
<1>. USE DEF heapVars, taskVars
<1>1. Setup /\ SetupInv /\ fault = "none" /\ stage' = "setup"
        /\ IsFiniteSet(allocated) /\ HeapBalanced
  BY DEF LifeInv, Setup, SetupCreate, SetupSuspend, SetupResume, SetupDelete,
         SetupPrioritySet
<1>2. ASSUME UNCHANGED <<allocated, heapUsed>>
      PROVE  IsFiniteSet(allocated') /\ HeapBalanced'
  BY <1>1, <1>2 DEF HeapBalanced
<1>3. CASE \E p \in RequestedPriority : SetupCreate(t, p)
  <2>1. PICK p \in RequestedPriority : SetupCreate(t, p)
    BY <1>3
  <2>2. SetupInv' /\ fault' = "none"
    BY <1>1, <2>1, SetupCreateStep DEF SetupCreate
  <2>3. IsFiniteSet(allocated') /\ HeapBalanced'
    BY <1>1, <2>1, CreationBalanced DEF SetupCreate, CreateBeforeStart, Create
  <2>. QED BY <1>1, <2>2, <2>3, SetupStage DEF FaultsExplained
<1>4. CASE SetupSuspend(t)
  <2>1. /\ fault' \in {"none", "search"}
        /\ fault' = "search" => \A p \in Priority : ~ReadyAt(p)'
        /\ fault' = "none" => SetupInv'
    BY <1>1, <1>4, SetupSuspendStep
  <2>. QED BY <1>1, <1>2, <1>4, <2>1, SetupStage
           DEF SetupSuspend, FaultsExplained
<1>5. CASE SetupResume(t)
  <2>1. /\ fault' \in {"none", "null"}
        /\ fault' = "null" =>
             uxCurrentNumberOfTasks' = 1 /\ pxCurrentTCB' = NULL
        /\ fault' # "null" => SetupInv'
    BY <1>1, <1>5, SetupResumeStep
  <2>. QED BY <1>1, <1>2, <1>5, <2>1, SetupStage
           DEF SetupResume, FaultsExplained
<1>6. CASE SetupDelete(t)
  BY <1>1, <1>2, <1>6, SetupDeleteStep, SetupStage
     DEF SetupDelete, FaultsExplained
<1>7. CASE \E p \in RequestedPriority : SetupPrioritySet(t, p)
  BY <1>1, <1>2, <1>7, SetupPrioritySetStep, SetupStage
     DEF SetupPrioritySet, FaultsExplained
<1>. QED BY <1>3, <1>4, <1>5, <1>6, <1>7

LEMMA LifeStep == LifeInv /\ [LifeNext]_lifeVars => LifeInv'
<1>. SUFFICES ASSUME LifeInv, [LifeNext]_lifeVars PROVE LifeInv'
  OBVIOUS
<1>. USE DEF heapVars
<1>1. IsFiniteSet(allocated) /\ HeapBalanced
  BY DEF LifeInv
<1>2. CASE \/ SetupCreateFails \/ RunningCreateFails \/ UNCHANGED lifeVars
  BY <1>2, LifeStutter
     DEF SetupCreateFails, RunningCreateFails, AllocationFails, lifeVars
<1>3. CASE Start
  <2>1. /\ SetupInv /\ stage' = "running" /\ Allocate /\ Create(Idle, 0)
    BY <1>3 DEF LifeInv, Setup, Start, StartScheduler
  <2>2. IsFiniteSet(allocated') /\ HeapBalanced'
    BY <1>1, <2>1, CreationBalanced DEF Create
  <2>. QED BY <1>3, <2>1, <2>2, StartStep, RunningStage DEF FaultsExplained
<1>4. ASSUME Running
      PROVE  fault = "none" /\ stage = "running" /\ RunningInv
  BY <1>4 DEF LifeInv, Running
<1>5. CASE \E c, t \in Task, p \in RequestedPriority : RunningCreates(c, t, p)
  <2>1. PICK c \in Task, t \in Task, p \in RequestedPriority :
                RunningCreates(c, t, p)
    BY <1>5
  <2>2. Next
    BY <2>1 DEF RunningCreates, Next, Call
  <2>3. RunningInv' /\ stage' = "running" /\ fault' = "none"
    BY <1>4, <2>1, <2>2, RunningStep DEF RunningCreates
  <2>4. IsFiniteSet(allocated') /\ HeapBalanced'
    BY <1>1, <2>1, CreationBalanced DEF RunningCreates, CreateTask, Create
  <2>. QED BY <2>3, <2>4, RunningStage DEF FaultsExplained
<1>6. CASE RunningReap
  <2>1. Next
    BY <1>6 DEF RunningReap, Next, IdleStep
  <2>2. RunningInv' /\ stage' = "running" /\ fault' = "none"
    BY <1>4, <1>6, <2>1, RunningStep DEF RunningReap
  <2>3. IsFiniteSet(allocated') /\ HeapBalanced'
    BY <1>1, <1>6, ReapingBalanced DEF RunningReap, IdleReap, Reap
  <2>. QED BY <2>2, <2>3, RunningStage DEF FaultsExplained
<1>7. CASE RunningOther
  <2>1. RunningInv' /\ stage' = "running" /\ fault' = "none"
    BY <1>4, <1>7, RunningStep DEF RunningOther
  <2>2. IsFiniteSet(allocated') /\ HeapBalanced'
    BY <1>1, <1>7 DEF RunningOther, HeapBalanced
  <2>. QED BY <2>1, <2>2, RunningStage DEF FaultsExplained
<1>8. CASE \E c \in Task : EndScheduler(c)
  <2>1. /\ EndedInv' /\ stage' = "ended" /\ fault' = "none"
        /\ UNCHANGED <<allocated, heapUsed>>
    BY <1>4, <1>8, EndStep DEF EndScheduler, taskVars
  <2>. QED BY <1>1, <2>1
           DEF LifeInv, Setup, Running, HeapBalanced, CleanUpComplete,
               FaultsExplained
<1>9. CASE CleanUpResources
  <2>1. /\ IsFiniteSet(allocated') /\ HeapBalanced' /\ CleanUpComplete'
        /\ stage' = "cleaned" /\ fault' = "none"
    BY <1>9, CleanUpStep DEF LifeInv, CleanUpResources
  <2>. QED BY <2>1 DEF LifeInv, Setup, Running, FaultsExplained
<1>10. CASE \E t \in Task :
              \/ \E p \in RequestedPriority : SetupCreate(t, p)
              \/ SetupSuspend(t) \/ SetupResume(t) \/ SetupDelete(t)
              \/ \E p \in RequestedPriority : SetupPrioritySet(t, p)
  BY <1>10, SetupLife
<1>. QED BY <1>2, <1>3, <1>5, <1>6, <1>7, <1>8, <1>9, <1>10 DEF LifeNext

LEMMA LifeInvariance == LifeSpec => []LifeInv
  BY LifeInitial, LifeStep, PTL DEF LifeSpec

-----------------------------------------------------------------------------
(* No failing creation, no reaping and no clean-up leaks a block of the heap,
   or frees one twice (prvAllocateTCBAndStack, prvDeleteTCB). *)
THEOREM HeapAccounted == LifeSpec => []HeapBalanced
<1>1. LifeInv => HeapBalanced
  BY DEF LifeInv
<1>. QED BY <1>1, LifeInvariance, PTL

(* vTaskCleanUpResources leaves allocated the deleted tasks the idle task did
   not get to and the ready tasks above uxTopUsedPriority, and no other. *)
THEOREM CleanUpFreesRest == LifeSpec => []CleanUpComplete
<1>1. LifeInv => CleanUpComplete
  BY DEF LifeInv
<1>. QED BY <1>1, LifeInvariance, PTL

(* Whatever main() created, suspended, resumed, deleted and gave other
   priorities, in whatever order: the scheduler starts with every task in the
   list it belongs to, a search that finds the highest ready priority, and the
   right task running or a switch to it requested; and it stays so. *)
THEOREM StartsSound == LifeSpec => []SoundAfterSetup
<1>1. LifeInv => SoundAfterSetup
  BY ReadyCacheHolds, SettledHolds
     DEF LifeInv, Running, RunningInv, StoreInv, SoundAfterSetup
<1>. QED BY <1>1, LifeInvariance, PTL

(* vTaskSwitchContext leaves the ready lists only when no task is ready, NULL
   pxCurrentTCB is followed only when one task is left, and the scheduler starts
   a deleted task only where main() deleted the current one. *)
THEOREM FaultsHaveCauses == LifeSpec => []FaultsExplained
<1>1. LifeInv => FaultsExplained
  BY DEF LifeInv
<1>. QED BY <1>1, LifeInvariance, PTL

=============================================================================

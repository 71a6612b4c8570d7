--------------------------- MODULE PortLayerProofs ---------------------------
(***************************************************************************)
(* For any set of tasks and any bounds: vTaskSuspendAll and xTaskResumeAll  *)
(* implement the lock of SchedulerLock, and the interrupt mask is exact.    *)
(***************************************************************************)
EXTENDS PortLayer, SequenceTheorems, TLAPS

(* A task that is switched out between the read and the write has read 0, and
   finds 0 when it is back; a task in xTaskResumeAll has something to undo. *)
CountExact ==
  /\ uxSchedulerSuspended = holds[pxCurrentTCB]
  /\ \A t \in TCB :
       /\ holds[t] <= MaxDepth
       /\ t # pxCurrentTCB => holds[t] = 0
       /\ pc[t] = "increment" => reg[t] = holds[t] /\ holds[t] < MaxDepth
       /\ pc[t] = "decrement" => holds[t] > 0
       /\ pc[t] \in {"decrement", "leave"} => sections[t] > 0

(* Nothing has begun before the start. *)
QuietBeforeStart ==
  ~xSchedulerRunning =>
    /\ isr = <<>>
    /\ \A t \in TCB : sections[t] = 0 /\ uxCriticalNesting[t] = 0

(* The nesting a port counts is that of the sections its tasks are in. *)
NestingExact ==
  xSchedulerRunning =>
    IF nestingInTCB
    THEN \A t \in TCB : uxCriticalNesting[t] = sections[t]
    ELSE /\ eal6_port_critical_depth = sections[pxCurrentTCB]
         /\ \A t \in TCB : t # pxCurrentTCB => sections[t] = 0

(* Interrupts nest only while none has the mask, outside critical sections. *)
InterruptsNest ==
  /\ \A i \in 1 .. Len(isr) : i < Len(isr) => isr[i] \in {"nothing", "restored"}
  /\ isr # <<>> => Innermost # "disabled" /\ sections[pxCurrentTCB] = 0

MaskInv == QuietBeforeStart /\ NestingExact /\ InterruptsNest /\ MaskExact

-----------------------------------------------------------------------------
(* The types in three parts: flags, the nested interrupts, and the rest. *)
FlagsOK == /\ nestingInTCB \in BOOLEAN /\ xSchedulerRunning \in BOOLEAN
           /\ xMissedYield \in BOOLEAN /\ interruptsDisabled \in BOOLEAN
           /\ yieldPending \in BOOLEAN
InterruptsOK == isr \in Seq(Saved)
CountsOK == /\ pxCurrentTCB \in TCB
            /\ uxSchedulerSuspended \in 0 .. MaxDepth
            /\ uxCriticalNesting \in [TCB -> Nat]
            /\ eal6_port_critical_depth \in Nat
            /\ pc \in [TCB -> Points]
            /\ reg \in [TCB -> Nat]
            /\ holds \in [TCB -> Nat]
            /\ sections \in [TCB -> Nat]

LEMMA InitTyped == Init => TypeOK /\ CountExact
<1> SUFFICES ASSUME Init PROVE TypeOK /\ CountExact
    OBVIOUS
<1>1. FlagsOK
  BY DEF Init, FlagsOK
<1>2. InterruptsOK
  BY DEF Init, InterruptsOK
<1>3. CountsOK
  BY BoundAssumption DEF Init, CountsOK, Points
<1>4. CountExact
  BY BoundAssumption DEF Init, CountExact
<1> QED BY <1>1, <1>2, <1>3, <1>4 DEF TypeOK, FlagsOK, InterruptsOK, CountsOK

LEMMA ExitCriticalTyped ==
  ASSUME FlagsOK, CountsOK, ExitCritical
  PROVE  /\ interruptsDisabled' \in BOOLEAN
         /\ uxCriticalNesting' \in [TCB -> Nat]
         /\ eal6_port_critical_depth' \in Nat
<1>1. interruptsDisabled' \in BOOLEAN
  BY Zenon DEF FlagsOK, ExitCritical
<1>2. uxCriticalNesting' \in [TCB -> Nat]
  BY DEF CountsOK, ExitCritical
<1>3. eal6_port_critical_depth' \in Nat
  BY DEF CountsOK, ExitCritical
<1> QED BY <1>1, <1>2, <1>3

LEMMA EnterCriticalTyped ==
  ASSUME CountsOK, EnterCritical
  PROVE  /\ interruptsDisabled' \in BOOLEAN
         /\ uxCriticalNesting' \in [TCB -> Nat]
         /\ eal6_port_critical_depth' \in Nat
  BY DEF CountsOK, EnterCritical

LEMMA FlagsKept ==
  ASSUME FlagsOK, CountsOK, [Next]_vars
  PROVE  FlagsOK'
<1>1. CASE MainCritical \/ MainLeaves \/ StartScheduler
  BY <1>1, ExitCriticalTyped, EnterCriticalTyped DEF FlagsOK, MainCritical,
     MainLeaves, StartScheduler, suspendVars, runVars
<1>2. ASSUME NEW t \in TCB, TaskStep(t) PROVE FlagsOK'
  <2>1. CASE \/ TaskEntersCritical(t) \/ TaskExitsCritical(t)
             \/ ResumeAllEnters(t) \/ ResumeAllLeaves(t)
    BY <2>1, ExitCriticalTyped, EnterCriticalTyped DEF FlagsOK,
       TaskEntersCritical, TaskExitsCritical, ResumeAllEnters, ResumeAllLeaves,
       suspendVars, runVars
  <2>2. CASE TaskYields(t) \/ SuspendAllReads(t) \/ SuspendAllWrites(t)
    BY <2>2 DEF FlagsOK, TaskYields, SuspendAllReads, SuspendAllWrites,
       suspendVars, runVars, portVars
  <2>3. CASE ResumeAllDecrements(t)
    <3>1. /\ yieldPending' = TRUE \/ yieldPending' = yieldPending
          /\ xMissedYield' = FALSE \/ xMissedYield' = xMissedYield
      BY <2>3, Zenon DEF ResumeAllDecrements
    <3> QED BY <2>3, <3>1 DEF FlagsOK, ResumeAllDecrements, runVars, portVars
  <2> QED BY <1>2, <2>1, <2>2, <2>3 DEF TaskStep
<1>3. CASE InterruptBegins \/ InterruptMasks \/ InterruptEnds
  BY <1>3 DEF FlagsOK, InterruptBegins, InterruptMasks, InterruptEnds,
       suspendVars,
     runVars, portVars
<1>4. CASE InterruptUnmasks
  <2>1. interruptsDisabled' \in BOOLEAN
    BY <1>4, Zenon DEF InterruptUnmasks
  <2> QED BY <1>4, <2>1 DEF FlagsOK, InterruptUnmasks, suspendVars, runVars
<1>5. CASE SwitchContext
  <2>1. interruptsDisabled' \in BOOLEAN
    BY <1>5, Zenon DEF SwitchContext, FlagsOK
  <2> QED BY <1>5, <2>1 DEF FlagsOK, SwitchContext, SwitchTaken
<1>6. CASE SwitchMissed
  BY <1>6 DEF FlagsOK, SwitchMissed, SwitchTaken
<1>7. CASE UNCHANGED vars
  BY <1>7 DEF FlagsOK, vars, portVars, suspendVars, runVars
<1> QED BY <1>1, <1>2, <1>3, <1>4, <1>5, <1>6, <1>7 DEF Next, Interrupt

(* How the sequence of nested interrupts grows, changes and shrinks. *)
LEMMA InterruptAppended ==
  ASSUME InterruptsOK, NEW m \in Saved, isr' = Append(isr, m)
  PROVE  /\ isr' \in Seq(Saved) /\ isr' # <<>>
         /\ Len(isr) \in Nat /\ Len(isr') = Len(isr) + 1
         /\ \A i \in 1 .. Len(isr) : isr'[i] = isr[i]
         /\ isr'[Len(isr')] = m
<1>1. isr \in Seq(Saved)
  BY DEF InterruptsOK
<1>2. Append(isr, m) # <<>>
  BY <1>1, AppendProperties
<1> QED BY <1>1, <1>2, AppendProperties, LenProperties

LEMMA InterruptUpdated ==
  ASSUME InterruptsOK, isr # <<>>, NEW m \in Saved,
         isr' = [isr EXCEPT ![Len(isr)] = m]
  PROVE  /\ isr' \in Seq(Saved) /\ isr' # <<>>
         /\ Len(isr) \in Nat \ {0} /\ Len(isr') = Len(isr)
         /\ \A i \in 1 .. Len(isr) : i < Len(isr) => isr'[i] = isr[i]
         /\ isr'[Len(isr')] = m
<1>1. isr \in Seq(Saved) /\ Len(isr) \in 1 .. Len(isr) /\ Len(isr) \in Nat
  BY EmptySeq, LenProperties DEF InterruptsOK
<1>2. isr' \in Seq(Saved) /\ Len(isr') = Len(isr)
  BY <1>1, ExceptSeq
<1>3. /\ isr'[Len(isr)] = m
      /\ \A i \in 1 .. Len(isr) : i < Len(isr) => isr'[i] = isr[i]
  BY <1>1, ExceptSeq
<1> QED BY <1>1, <1>2, <1>3, LenProperties, EmptySeq

LEMMA InterruptDropped ==
  ASSUME InterruptsOK, isr # <<>>, isr' = SubSeq(isr, 1, Len(isr) - 1)
  PROVE  /\ isr' \in Seq(Saved)
         /\ Len(isr) \in Nat \ {0} /\ Len(isr') = Len(isr) - 1
         /\ \A i \in 1 .. Len(isr') : isr'[i] = isr[i]
         /\ isr' # <<>> => Len(isr') \in 1 .. Len(isr')
<1>1. isr \in Seq(Saved) /\ Len(isr) \in Nat \ {0}
  BY EmptySeq, LenProperties DEF InterruptsOK
<1>2. \A i \in 1 .. Len(isr) - 1 : isr[i] \in Saved
  BY <1>1, ElementOfSeq
<1>3. /\ isr' \in Seq(Saved) /\ Len(isr') = Len(isr) - 1
      /\ \A i \in 1 .. Len(isr) - 1 : isr'[i] = isr[i]
  <2> DEFINE n == Len(isr) - 1
  <2>1. n \in Nat /\ 1 \in Int /\ n \in Int
    BY <1>1
  <2>2. isr' = SubSeq(isr, 1, n) /\ \A i \in 1 .. n : isr[i] \in Saved
    BY <1>2
  <2> HIDE DEF n
  <2>3. /\ isr' \in Seq(Saved)
        /\ Len(isr') = IF 1 <= n THEN n - 1 + 1 ELSE 0
        /\ \A i \in 1 .. n - 1 + 1 : isr'[i] = isr[1 + i - 1]
    BY <2>1, <2>2, SubSeqProperties, SMTT(30)
  <2>4. Len(isr') = n /\ \A i \in 1 .. n : isr'[i] = isr[i]
    BY <2>1, <2>3
  <2> QED BY <2>3, <2>4 DEF n
<1> QED BY <1>1, <1>3, EmptySeq, LenProperties

LEMMA InterruptsKept ==
  ASSUME TypeOK, [Next]_vars
  PROVE  InterruptsOK'
<1>1. InterruptsOK
  BY DEF TypeOK, InterruptsOK
<1>2. CASE InterruptBegins
  BY <1>1, <1>2, InterruptAppended DEF InterruptBegins, InterruptsOK, Saved
<1>3. CASE InterruptMasks
  <2> DEFINE m == IF interruptsDisabled THEN "disabled" ELSE "enabled"
  <2>1. m \in Saved
    BY DEF Saved
  <2>2. isr # <<>> /\ isr' = [isr EXCEPT ![Len(isr)] = m]
    BY <1>3 DEF InterruptMasks
  <2> HIDE DEF m
  <2> QED BY <1>1, <2>1, <2>2, InterruptUpdated DEF InterruptsOK
<1>4. CASE InterruptUnmasks
  BY <1>1, <1>4, InterruptUpdated DEF InterruptUnmasks, InterruptsOK, Saved
<1>5. CASE InterruptEnds
  BY <1>1, <1>5, InterruptDropped DEF InterruptEnds, InterruptsOK
<1>6. CASE UNCHANGED isr
  BY <1>1, <1>6 DEF InterruptsOK
<1> QED BY <1>2, <1>3, <1>4, <1>5, <1>6 DEF Next, Interrupt, vars, MainCritical,
     MainLeaves, StartScheduler, TaskStep, TaskEntersCritical,
     TaskExitsCritical,
     TaskYields, SuspendAllReads, SuspendAllWrites, ResumeAllEnters,
     ResumeAllDecrements, ResumeAllLeaves, SwitchContext, SwitchMissed,
     SwitchTaken

(* What SuspendAllWrites and ResumeAllDecrements do to the count. *)
LEMMA CountKept ==
  ASSUME FlagsOK, CountsOK, CountExact, [Next]_vars
  PROVE  CountsOK' /\ CountExact'
<1> USE BoundAssumption
<1>1. CASE MainCritical \/ MainLeaves \/ StartScheduler
  BY <1>1, ExitCriticalTyped, EnterCriticalTyped DEF CountsOK, CountExact,
     MainCritical, MainLeaves, StartScheduler, suspendVars, runVars, taskVars
<1>2. ASSUME NEW t \in TCB, TaskStep(t) PROVE CountsOK' /\ CountExact'
  <2>1. t = pxCurrentTCB /\ pxCurrentTCB' = pxCurrentTCB
    BY <1>2 DEF TaskStep, TaskEntersCritical, TaskExitsCritical, TaskYields,
         SuspendAllReads, SuspendAllWrites, ResumeAllEnters,
         ResumeAllDecrements, ResumeAllLeaves, RunsAt, runVars
  <2>2. CASE TaskEntersCritical(t)
    BY <2>1, <2>2, EnterCriticalTyped DEF CountsOK, CountExact,
       TaskEntersCritical, suspendVars, runVars, taskVars
  <2>3. CASE TaskExitsCritical(t)
    <3>1. /\ sections[t] > 0 /\ sections' = [sections EXCEPT ![t] = @ - 1]
          /\ pc[t] = "app" /\ UNCHANGED <<uxSchedulerSuspended, pc, reg, holds>>
      BY <2>1, <2>3 DEF TaskExitsCritical, RunsAt, suspendVars, taskVars
    <3>2. CountExact'
      BY <2>1, <3>1 DEF CountsOK, CountExact
    <3>3. CountsOK'
      BY <2>1, <2>3, <3>1, ExitCriticalTyped DEF CountsOK, TaskExitsCritical
    <3> QED BY <3>2, <3>3
  <2>4. CASE TaskYields(t)
    BY <2>1, <2>4 DEF CountsOK, CountExact, TaskYields,
         portVars, suspendVars, runVars, taskVars
  <2>5. CASE SuspendAllReads(t)
    BY <2>1, <2>5 DEF CountsOK, CountExact, SuspendAllReads, Goto,
         portVars, suspendVars, runVars, Points
  <2>6. CASE SuspendAllWrites(t)
    BY <2>1, <2>6 DEF CountsOK, CountExact, SuspendAllWrites, RunsAt, Goto,
         portVars, runVars, Points
  <2>7. CASE ResumeAllEnters(t)
    BY <2>1, <2>7, EnterCriticalTyped DEF CountsOK, CountExact,
       ResumeAllEnters, Goto, suspendVars, runVars, Points
  <2>8. CASE ResumeAllDecrements(t)
    <3>1. /\ holds[t] > 0 /\ sections[t] > 0
          /\ uxSchedulerSuspended' = uxSchedulerSuspended - 1
          /\ holds' = [holds EXCEPT ![t] = @ - 1]
          /\ pc' = [pc EXCEPT ![t] = "leave"]
          /\ UNCHANGED <<uxCriticalNesting, eal6_port_critical_depth, reg,
                         sections>>
      BY <2>1, <2>8 DEF ResumeAllDecrements, Decremented, RunsAt, Goto,
         CountExact, portVars
    <3>2. CountsOK'
      BY <2>1, <3>1 DEF CountsOK, CountExact, Points
    <3>3. CountExact'
      BY <2>1, <3>1 DEF CountsOK, CountExact
    <3> QED BY <3>2, <3>3
  <2>9. CASE ResumeAllLeaves(t)
    <3>1. /\ sections[t] > 0 /\ sections' = [sections EXCEPT ![t] = @ - 1]
          /\ pc' = [pc EXCEPT ![t] = "app"]
          /\ UNCHANGED <<uxSchedulerSuspended, reg, holds>>
      BY <2>1, <2>9 DEF ResumeAllLeaves, RunsAt, Goto, CountsOK, CountExact,
         suspendVars
    <3>2. CountExact'
      BY <2>1, <3>1 DEF CountsOK, CountExact
    <3>3. CountsOK'
      BY <2>1, <2>9, <3>1, ExitCriticalTyped DEF CountsOK, ResumeAllLeaves,
           Points
    <3> QED BY <3>2, <3>3
  <2> QED BY <1>2, <2>2, <2>3, <2>4, <2>5, <2>6, <2>7, <2>8, <2>9 DEF TaskStep
<1>3. CASE Interrupt
  BY <1>3 DEF CountsOK, CountExact, Interrupt, InterruptBegins, InterruptMasks,
       InterruptUnmasks, InterruptEnds, portVars, suspendVars, runVars, taskVars
<1>4. CASE SwitchContext
  <2>1. /\ uxSchedulerSuspended = 0 /\ pxCurrentTCB' \in TCB
        /\ UNCHANGED <<uxSchedulerSuspended, uxCriticalNesting,
                        eal6_port_critical_depth, pc, reg, holds, sections>>
    BY <1>4 DEF CountsOK, SwitchContext, SwitchTaken, SwitchBarred, taskVars
  <2>2. \A t \in TCB : holds[t] = 0
    BY <2>1 DEF CountExact
  <2> QED BY <2>1, <2>2 DEF CountsOK, CountExact
<1>5. CASE SwitchMissed
  BY <1>5 DEF CountsOK, CountExact, SwitchMissed, SwitchTaken, taskVars
<1>6. CASE UNCHANGED vars
  BY <1>6 DEF CountsOK, CountExact, vars, portVars, suspendVars, runVars,
       taskVars
<1> QED BY <1>1, <1>2, <1>3, <1>4, <1>5, <1>6 DEF Next

(* The types, with the bound on the nesting of vTaskSuspendAll, hold always. *)
THEOREM CountCorrect == Spec => [](TypeOK /\ CountExact)
<1>1. TypeOK <=> FlagsOK /\ InterruptsOK /\ CountsOK
  BY DEF TypeOK, FlagsOK, InterruptsOK, CountsOK
<1>2. TypeOK' <=> FlagsOK' /\ InterruptsOK' /\ CountsOK'
  BY DEF TypeOK, FlagsOK, InterruptsOK, CountsOK
<1>3. TypeOK /\ CountExact /\ [Next]_vars => TypeOK' /\ CountExact'
  BY <1>1, <1>2, FlagsKept, InterruptsKept, CountKept
<1> QED BY InitTyped, <1>3, PTL DEF Spec

-----------------------------------------------------------------------------
(* vTaskSuspendAll and xTaskResumeAll (tasks.c:1098-1103) implement a lock that
   keeps its holder on the processor, although the increment is a read and a
   write with interrupts and other tasks between them. *)
THEOREM LockImplemented == Spec => ImplementsLock
<1>1. Init => Lock!Init
  BY DEF Init, Lock!Init
<1>2. TypeOK /\ CountExact /\ [Next]_vars => [Lock!Next]_(Lock!lockVars)
  <2> SUFFICES ASSUME TypeOK, CountExact, [Next]_vars
               PROVE  Lock!Next \/ UNCHANGED Lock!lockVars
      BY DEF Lock!lockVars
  <2>1. CASE MainCritical \/ MainLeaves \/ StartScheduler
    BY <2>1 DEF MainCritical, MainLeaves, StartScheduler, runVars, Lock!lockVars
  <2>2. ASSUME NEW t \in TCB, TaskStep(t)
        PROVE  Lock!Next \/ UNCHANGED Lock!lockVars
    <3>1. CASE SuspendAllWrites(t)
      <4>1. Lock!Take
        BY <3>1 DEF SuspendAllWrites, RunsAt, runVars, Lock!Take
      <4> QED BY <4>1 DEF Lock!Next
    <3>2. CASE ResumeAllDecrements(t)
      <4>1. Lock!Release
        BY <3>2 DEF ResumeAllDecrements, RunsAt, runVars, CountExact,
             Lock!Release
      <4> QED BY <4>1 DEF Lock!Next
    <3>3. CASE \/ TaskEntersCritical(t) \/ TaskExitsCritical(t) \/ TaskYields(t)
               \/ SuspendAllReads(t) \/ ResumeAllEnters(t) \/ ResumeAllLeaves(t)
      BY <3>3 DEF TaskEntersCritical, TaskExitsCritical, TaskYields,
           SuspendAllReads, ResumeAllEnters, ResumeAllLeaves, runVars,
           Lock!lockVars
    <3> QED BY <2>2, <3>1, <3>2, <3>3 DEF TaskStep
  <2>3. CASE Interrupt
    BY <2>3 DEF Interrupt, InterruptBegins, InterruptMasks, InterruptUnmasks,
         InterruptEnds, runVars, Lock!lockVars
  <2>4. CASE SwitchContext
    <3>1. uxSchedulerSuspended = 0
      BY <2>4 DEF SwitchContext, SwitchBarred, TypeOK
    <3>2. \A t \in TCB : holds[t] = 0
      BY <3>1 DEF CountExact
    <3>3. Lock!Dispatch
      BY <2>4, <3>2 DEF SwitchContext, SwitchTaken, Lock!Dispatch
    <3> QED BY <3>3 DEF Lock!Next
  <2>5. CASE SwitchMissed
    BY <2>5 DEF SwitchMissed, SwitchTaken, Lock!lockVars
  <2>6. CASE UNCHANGED vars
    BY <2>6 DEF vars, runVars, Lock!lockVars
  <2> QED BY <2>1, <2>2, <2>3, <2>4, <2>5, <2>6 DEF Next
<1> QED BY <1>1, <1>2, CountCorrect, PTL DEF Spec, ImplementsLock, Lock!Spec

-----------------------------------------------------------------------------
(* Nothing but MaskInv is disturbed before the start and at it. *)
LEMMA MaskKeptByMain ==
  ASSUME TypeOK, MaskInv, MainCritical \/ MainLeaves \/ StartScheduler
  PROVE  MaskInv'
<1>1. CASE MainCritical
  BY <1>1 DEF TypeOK, MaskInv, QuietBeforeStart, NestingExact, InterruptsNest,
       MaskExact, Innermost, MainCritical, EnterCritical, runVars,
       taskVars
<1>2. CASE MainLeaves
  BY <1>2 DEF TypeOK, MaskInv, QuietBeforeStart, NestingExact, InterruptsNest,
       MaskExact, Innermost, MainLeaves, ExitCritical, LeavesLast,
       runVars, taskVars
<1>3. CASE StartScheduler
  BY <1>3 DEF TypeOK, MaskInv, QuietBeforeStart, NestingExact, InterruptsNest,
       MaskExact, Innermost, StartScheduler, taskVars
<1> QED BY <1>1, <1>2, <1>3

(* A task that runs opens one section more, or leaves one. *)
LEMMA SectionOpened ==
  ASSUME TypeOK, MaskInv, NEW t \in TCB, xSchedulerRunning, t = pxCurrentTCB,
         isr = <<>>, EnterCritical, UNCHANGED <<runVars, isr>>,
         sections' = [sections EXCEPT ![t] = @ + 1]
  PROVE  (QuietBeforeStart /\ NestingExact /\ InterruptsNest /\ MaskExact)'
  BY DEF TypeOK, MaskInv, QuietBeforeStart, NestingExact, InterruptsNest,
       MaskExact, Innermost, EnterCritical, runVars

LEMMA SectionLeft ==
  ASSUME TypeOK, MaskInv, NEW t \in TCB, xSchedulerRunning, t = pxCurrentTCB,
         isr = <<>>, sections[t] > 0, ExitCritical, UNCHANGED <<runVars, isr>>,
         sections' = [sections EXCEPT ![t] = @ - 1]
  PROVE  (QuietBeforeStart /\ NestingExact /\ InterruptsNest /\ MaskExact)'
<1>1. (QuietBeforeStart /\ InterruptsNest)'
  BY DEF TypeOK, MaskInv, QuietBeforeStart, InterruptsNest, Innermost, runVars
<1>2. interruptsDisabled
  BY DEF MaskInv, MaskExact
<1>3. CASE nestingInTCB
  <2>1. uxCriticalNesting[t] = sections[t]
    BY <1>3 DEF MaskInv, NestingExact
  <2>2. /\ uxCriticalNesting' = [uxCriticalNesting EXCEPT ![t] = @ - 1]
        /\ interruptsDisabled' <=> sections[t] # 1
    BY <1>2, <1>3, <2>1 DEF ExitCritical, LeavesLast, TypeOK
  <2>3. NestingExact'
    BY <1>3, <2>2 DEF MaskInv, NestingExact, TypeOK, runVars
  <2>4. MaskExact'
    BY <2>2 DEF MaskExact, TypeOK, runVars
  <2> QED BY <1>1, <2>3, <2>4
<1>4. CASE ~nestingInTCB
  <2>1. eal6_port_critical_depth = sections[t]
    BY <1>4 DEF MaskInv, NestingExact
  <2>2. /\ eal6_port_critical_depth' = sections[t] - 1
        /\ interruptsDisabled' <=> sections[t] # 1
    BY <1>2, <1>4, <2>1 DEF ExitCritical, LeavesLast, TypeOK
  <2>3. NestingExact'
    BY <1>4, <2>2 DEF MaskInv, NestingExact, TypeOK, runVars
  <2>4. MaskExact'
    BY <2>2 DEF MaskExact, TypeOK, runVars
  <2> QED BY <1>1, <2>3, <2>4
<1> QED BY <1>3, <1>4

LEMMA MaskKeptByTask ==
  ASSUME TypeOK, CountExact, MaskInv, NEW t \in TCB, TaskStep(t)
  PROVE  MaskInv'
<1>1. CASE TaskEntersCritical(t)
  BY <1>1, SectionOpened DEF TaskEntersCritical, RunsAt, MaskInv
<1>2. CASE TaskExitsCritical(t)
  BY <1>2, SectionLeft DEF TaskExitsCritical, RunsAt, MaskInv
<1>3. CASE ResumeAllEnters(t)
  BY <1>3, SectionOpened DEF ResumeAllEnters, RunsAt, MaskInv
<1>4. CASE ResumeAllLeaves(t)
  BY <1>4, SectionLeft DEF ResumeAllLeaves, RunsAt, MaskInv, CountExact
<1>5. CASE \/ TaskYields(t) \/ SuspendAllReads(t) \/ SuspendAllWrites(t)
           \/ ResumeAllDecrements(t)
  <2>1. UNCHANGED <<portVars, runVars, isr, sections>>
    BY <1>5 DEF TaskYields, SuspendAllReads, SuspendAllWrites,
         ResumeAllDecrements
  <2> QED BY <2>1 DEF MaskInv, QuietBeforeStart, NestingExact, InterruptsNest,
             MaskExact, Innermost, portVars, runVars
<1> QED BY <1>1, <1>2, <1>3, <1>4, <1>5 DEF TaskStep

LEMMA MaskKeptByInterrupt ==
  ASSUME TypeOK, MaskInv, Interrupt
  PROVE  MaskInv'
<1>1. xSchedulerRunning
  BY DEF MaskInv, QuietBeforeStart, Interrupt, InterruptBegins, InterruptMasks,
       InterruptUnmasks, InterruptEnds
<1>i. InterruptsOK
  BY DEF TypeOK, InterruptsOK
<1>u. UNCHANGED <<uxCriticalNesting, eal6_port_critical_depth, runVars, pc,
                  sections>>
  BY DEF Interrupt, InterruptBegins, InterruptMasks, InterruptUnmasks,
     InterruptEnds, portVars, taskVars
<1>2. (QuietBeforeStart /\ NestingExact)'
  BY <1>1, <1>u DEF MaskInv, QuietBeforeStart, NestingExact, runVars
<1>3. CASE InterruptBegins
  <2>1. sections[pxCurrentTCB] = 0
    BY <1>1, <1>3 DEF InterruptBegins, MaskInv, MaskExact, TypeOK
  <2>2. isr # <<>> => Innermost \in {"nothing", "restored"}
    BY <1>1, <1>3 DEF InterruptBegins, MaskInv, MaskExact, InterruptsNest,
         TypeOK,
         Innermost, Saved
  <2>3. /\ Len(isr') = Len(isr) + 1 /\ isr'[Len(isr')] = "nothing"
        /\ \A i \in 1 .. Len(isr) : isr'[i] = isr[i]
        /\ isr \in Seq(Saved) /\ isr' # <<>>
    BY <1>3, <1>i, InterruptAppended DEF InterruptBegins, InterruptsOK, Saved
  <2>4. (InterruptsNest /\ MaskExact)'
    BY <1>1, <1>3, <2>1, <2>2, <2>3 DEF InterruptBegins, MaskInv, MaskExact,
         InterruptsNest, Innermost, portVars, runVars
  <2> QED BY <1>2, <2>4 DEF MaskInv
<1>4. CASE InterruptMasks
  BY <1>1, <1>2, <1>4 DEF InterruptMasks, MaskInv, MaskExact, InterruptsNest,
       TypeOK, Innermost, Saved, runVars
<1>5. CASE InterruptUnmasks
  <2>1. Innermost = "enabled" /\ sections[pxCurrentTCB] = 0 /\ isr # <<>>
    BY <1>5 DEF InterruptUnmasks, MaskInv, InterruptsNest
  <2>2. ~interruptsDisabled' /\ isr' = [isr EXCEPT ![Len(isr)] = "restored"]
    BY <1>5, <2>1 DEF InterruptUnmasks
  <2>3. /\ Len(isr') = Len(isr) /\ isr'[Len(isr')] = "restored"
        /\ \A i \in 1 .. Len(isr) : i < Len(isr) => isr'[i] = isr[i]
    BY <1>i, <2>1, <2>2, InterruptUpdated DEF Saved
  <2>4. InterruptsNest'
    BY <1>u, <2>1, <2>3 DEF MaskInv, InterruptsNest, Innermost, runVars
  <2>5. MaskExact'
    <3>1. sections'[pxCurrentTCB'] = 0 /\ Innermost' = "restored"
      BY <1>u, <2>1, <2>3 DEF Innermost, runVars
    <3> QED BY <2>2, <3>1 DEF MaskExact
  <2> QED BY <1>2, <2>4, <2>5 DEF MaskInv
<1>6. CASE InterruptEnds
  <2>1. ~interruptsDisabled /\ sections[pxCurrentTCB] = 0
    BY <1>1, <1>6 DEF InterruptEnds, MaskInv, MaskExact, InterruptsNest, TypeOK
  <2>2. /\ isr \in Seq(Saved) /\ Len(isr') = Len(isr) - 1
        /\ \A i \in 1 .. Len(isr') : isr'[i] = isr[i]
    BY <1>6, <1>i, InterruptDropped DEF InterruptEnds, InterruptsOK
  <2>3. /\ InterruptsNest'
        /\ isr' # <<>> => Innermost' \in {"nothing", "restored"}
    BY <1>6, <2>1, <2>2 DEF InterruptEnds, MaskInv, InterruptsNest, Innermost,
         Saved, runVars
  <2>4. MaskExact'
    BY <1>6, <2>1, <2>3 DEF InterruptEnds, MaskExact, portVars, runVars
  <2> QED BY <1>2, <2>3, <2>4 DEF MaskInv
<1> QED BY <1>3, <1>4, <1>5, <1>6 DEF Interrupt

LEMMA MaskKeptBySwitch ==
  ASSUME TypeOK, TypeOK', MaskInv, SwitchContext \/ SwitchMissed
  PROVE  MaskInv'
<1>1. CASE SwitchContext
  <2>1. ~nestingInTCB => \A t \in TCB : sections[t] = 0
    BY <1>1 DEF SwitchContext, SwitchTaken, MaskInv, MaskExact, NestingExact,
         TypeOK
  <2>2. (QuietBeforeStart /\ InterruptsNest)'
    BY <1>1 DEF SwitchContext, SwitchTaken, MaskInv, QuietBeforeStart,
         InterruptsNest, taskVars
  <2>3. NestingExact'
    BY <1>1, <2>1 DEF SwitchContext, SwitchTaken, MaskInv, NestingExact, TypeOK
  <2>4. MaskExact'
    BY <1>1, <2>1 DEF SwitchContext, SwitchTaken, MaskInv, NestingExact,
         MaskExact, TypeOK
  <2> QED BY <2>2, <2>3, <2>4 DEF MaskInv
<1>2. CASE SwitchMissed
  BY <1>2 DEF SwitchMissed, SwitchTaken, MaskInv, QuietBeforeStart,
       NestingExact,
       InterruptsNest, MaskExact, Innermost, taskVars
<1> QED BY <1>1, <1>2

(* Interrupts are disabled exactly in critical sections and where an interrupt
   has set the mask, in both kinds of port, however sections, interrupts and
   context switches nest. *)
THEOREM MaskCorrect == Spec => []MaskExact
<1>1. Init => MaskInv
  BY DEF Init, MaskInv, QuietBeforeStart, NestingExact, InterruptsNest,
       MaskExact
<1>2. TypeOK /\ TypeOK' /\ CountExact /\ MaskInv /\ [Next]_vars => MaskInv'
  <2> SUFFICES ASSUME TypeOK, TypeOK', CountExact, MaskInv, [Next]_vars
               PROVE  MaskInv'
      OBVIOUS
  <2>1. CASE UNCHANGED vars
    BY <2>1 DEF MaskInv, QuietBeforeStart, NestingExact, InterruptsNest,
         MaskExact, Innermost, vars, portVars, runVars, taskVars
  <2> QED BY <2>1, MaskKeptByMain, MaskKeptByTask, MaskKeptByInterrupt,
             MaskKeptBySwitch DEF Next
<1>3. MaskInv => MaskExact
  BY DEF MaskInv
<1> QED BY <1>1, <1>2, <1>3, CountCorrect, PTL DEF Spec

=============================================================================

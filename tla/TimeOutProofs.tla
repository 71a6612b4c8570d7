--------------------------- MODULE TimeOutProofs ---------------------------
(***************************************************************************)
(* For every width of the tick count and of the overflow count, and however *)
(* long a caller is kept from looking: a wait never ends early, and it ends *)
(* in time where the caller looks once in every full count of ticks.        *)
(***************************************************************************)
EXTENDS TimeOut, TLAPS

(* A wait that no time-out ends. *)
Forever == INCLUDE_vTaskSuspend /\ asked = portMAX_DELAY

(* Ticks since the time was noted, without the wrap of the subtraction. *)
Distance == IF xTickCount >= pxTimeOut.xTimeOnEntering
            THEN xTickCount - pxTimeOut.xTimeOnEntering
            ELSE xTickCount - pxTimeOut.xTimeOnEntering + TickCount

NextOverflow(n) == IF n + 1 = OverflowCount THEN 0 ELSE n + 1

(* Up to one full count of ticks the two counters tell how many have passed:
   the tick count has not wrapped, or wrapped once and not come back, or has
   just come back. *)
GapTold ==
  LET noted == pxTimeOut.xTimeOnEntering
      overflows == pxTimeOut.xOverflowCount
  IN  pc = "waiting" /\ ~Forever /\ gap <= TickCount =>
        \/ /\ xTickCount = noted + gap
           /\ xNumOfOverflows = overflows
        \/ /\ xTickCount = noted + gap - TickCount
           /\ xNumOfOverflows = NextOverflow(overflows)

(* In the critical section of vTaskSetTimeOutState no tick comes. *)
SetMasked == pc = "set" => masked /\ gap = 0 /\ waited = 0
                                  /\ pxTicksToWait = asked
                                  /\ pxTimeOut.xOverflowCount = xNumOfOverflows

(* What has been taken off the block time is not more than was waited for. *)
NotTooMuchOff ==
  InWait => \/ waited = TickCount
            \/ waited >= asked - pxTicksToWait + gap

(* It is exactly that where the caller has looked often enough. *)
ExactlyOff ==
  InWait /\ ~overslept /\ ~Forever =>
    /\ gap <= TickCount
    /\ waited < TickCount => waited = asked - pxTicksToWait + gap
    /\ waited = TickCount => asked - pxTicksToWait + gap >= TickCount

(* portMAX_DELAY stays what it is. *)
ForeverKept ==
  /\ InWait /\ Forever => pxTicksToWait = portMAX_DELAY
  /\ InWait /\ ~Forever => ~WaitsForEver

TimeInv == /\ TypeOK /\ GapTold /\ SetMasked
           /\ NotTooMuchOff /\ ExactlyOff /\ ForeverKept
           /\ NeverEarly

-----------------------------------------------------------------------------
LEMMA Wrapped ==
  ASSUME NEW x \in Tick, NEW y \in Tick
  PROVE  (x - y) % TickCount = IF x >= y THEN x - y ELSE x - y + TickCount
BY TickCountAssumption, SMTT(30) DEF Tick

LEMMA NextTick ==
  ASSUME NEW x \in Tick
  PROVE  (x + 1) % TickCount = IF x + 1 = TickCount THEN 0 ELSE x + 1
BY TickCountAssumption, SMTT(30) DEF Tick

LEMMA NextCount ==
  ASSUME NEW n \in 0 .. OverflowCount - 1
  PROVE  (n + 1) % OverflowCount = NextOverflow(n)
BY OverflowAssumption, SMTT(30) DEF NextOverflow

LEMMA ElapsedIsDistance == TypeOK => Elapsed = Distance /\ Distance \in Tick
<1> SUFFICES ASSUME TypeOK PROVE Elapsed = Distance /\ Distance \in Tick
  OBVIOUS
<1>1. xTickCount \in Tick /\ pxTimeOut.xTimeOnEntering \in Tick
  BY DEF TypeOK
<1>2. Elapsed = Distance
  BY <1>1, Wrapped DEF Elapsed, Distance
<1>3. Distance \in Tick
  BY <1>1, TickCountAssumption DEF Distance, Tick
<1>. QED BY <1>2, <1>3

(* What xTaskCheckForTimeOut sees: never more than the ticks that passed, and
   just these where no more than a full count did. *)
LEMMA ElapsedTold ==
  ASSUME TypeOK, GapTold, pc = "waiting", ~Forever
  PROVE  /\ Elapsed <= gap
         /\ WrappedPast => gap >= TickCount
         /\ gap < TickCount => Elapsed = gap
         /\ gap = TickCount => WrappedPast
<1>1. /\ xTickCount \in Tick /\ pxTimeOut.xTimeOnEntering \in Tick
      /\ gap \in Nat
      /\ xNumOfOverflows \in 0 .. OverflowCount - 1
      /\ pxTimeOut.xOverflowCount \in 0 .. OverflowCount - 1
  BY GapAssumption DEF TypeOK
<1>2. Elapsed = Distance /\ Distance \in Tick
  BY ElapsedIsDistance
<1>3. gap <= TickCount =>
        \/ /\ xTickCount = pxTimeOut.xTimeOnEntering + gap
           /\ xNumOfOverflows = pxTimeOut.xOverflowCount
        \/ /\ xTickCount = pxTimeOut.xTimeOnEntering + gap - TickCount
           /\ xNumOfOverflows = NextOverflow(pxTimeOut.xOverflowCount)
  BY DEF GapTold
<1>4. NextOverflow(pxTimeOut.xOverflowCount) # pxTimeOut.xOverflowCount
  BY <1>1, OverflowAssumption DEF NextOverflow
<1>5. gap < TickCount => Distance = gap
  BY <1>1, <1>3, TickCountAssumption DEF Distance, Tick
<1>6. WrappedPast => gap >= TickCount
  BY <1>1, <1>3, TickCountAssumption DEF WrappedPast, Tick
<1>7. gap = TickCount => WrappedPast
  BY <1>1, <1>3, <1>4, TickCountAssumption DEF WrappedPast, Tick
<1>8. Elapsed <= gap
  BY <1>1, <1>2, <1>5, TickCountAssumption DEF Tick
<1>. QED BY <1>2, <1>5, <1>6, <1>7, <1>8

-----------------------------------------------------------------------------
(* Every step keeps the invariant. *)

LEMMA InitTime == Init => TimeInv
<1> SUFFICES ASSUME Init PROVE TimeInv
  OBVIOUS
<1>1. 0 \in Tick /\ 0 \in 0 .. OverflowCount - 1 /\ 0 \in 0 .. MaxGap
        /\ 0 \in 0 .. TickCount
  BY TickCountAssumption, OverflowAssumption, GapAssumption DEF Tick
<1>2. TypeOK
  BY <1>1 DEF Init, TypeOK
<1>. QED BY <1>2 DEF Init, TimeInv, GapTold, SetMasked, NotTooMuchOff,
                     ExactlyOff, ForeverKept, NeverEarly, InWait

LEMMA BeginTime ==
  ASSUME TimeInv, NEW xTicksToWait \in Tick \ {0}, Begin(xTicksToWait)
  PROVE  TimeInv'
<1> USE TickCountAssumption, OverflowAssumption, GapAssumption
    DEF TimeInv, Begin
<1>1. TypeOK'
  <2>1. 0 \in 0 .. MaxGap /\ 0 \in 0 .. TickCount
    OBVIOUS
  <2>2. pxTimeOut' \in [xOverflowCount : 0 .. OverflowCount - 1,
                        xTimeOnEntering : Tick]
    BY DEF TypeOK
  <2>. QED BY <2>1, <2>2 DEF TypeOK, clock, EnterCritical
<1>2. GapTold' /\ NeverEarly'
  BY DEF GapTold, NeverEarly
<1>3. SetMasked'
  BY DEF SetMasked, EnterCritical, clock, TypeOK
<1>4. NotTooMuchOff' /\ ExactlyOff'
  BY <1>1 DEF NotTooMuchOff, ExactlyOff, InWait, TypeOK, Tick
<1>5. ForeverKept'
  BY DEF ForeverKept, WaitsForEver, Forever, InWait
<1>. QED BY <1>1, <1>2, <1>3, <1>4, <1>5

LEMMA NotedTime ==
  ASSUME TimeInv, Noted
  PROVE  TimeInv'
<1> USE TickCountAssumption, OverflowAssumption, GapAssumption
    DEF TimeInv, Noted, clock, history
<1>1. TypeOK'
  BY DEF TypeOK
<1>2. GapTold'
  BY <1>1 DEF GapTold, SetMasked, TypeOK, Tick
<1>3. SetMasked' /\ NeverEarly'
  BY DEF SetMasked, NeverEarly
<1>4. NotTooMuchOff' /\ ExactlyOff'
  BY DEF NotTooMuchOff, ExactlyOff, InWait, Forever
<1>5. ForeverKept'
  BY DEF ForeverKept, WaitsForEver, Forever, InWait
<1>. QED BY <1>1, <1>2, <1>3, <1>4, <1>5

(* The time-out is told. *)
LEMMA ExpiredTime ==
  ASSUME TimeInv, CheckForTimeOut, HasTimedOut
  PROVE  TimeInv'
<1> USE TickCountAssumption, OverflowAssumption, GapAssumption
    DEF TimeInv, CheckForTimeOut, clock
<1>1. /\ pc = "waiting" /\ pc' = "expired"
      /\ UNCHANGED <<clock, pxTicksToWait, pxTimeOut, masked, asked, history>>
  BY DEF history
<1>2. TypeOK'
  BY <1>1 DEF TypeOK, history
<1>3. ~Forever
  BY <1>1 DEF ForeverKept, Forever, HasTimedOut, WaitsForEver, InWait
<1>4. waited >= asked
  <2>1. gap >= TickCount \/ gap >= pxTicksToWait
    BY <1>1, <1>3, ElapsedTold, ElapsedIsDistance
    DEF HasTimedOut, TypeOK, Tick
  <2>2. gap >= pxTicksToWait
    BY <2>1 DEF TypeOK, Tick
  <2>. QED BY <1>1, <2>2 DEF NotTooMuchOff, InWait, TypeOK, Tick
<1>5. NeverEarly'
  BY <1>1, <1>3, <1>4 DEF NeverEarly, Forever, history
<1>. QED BY <1>1, <1>2, <1>5
         DEF GapTold, SetMasked, NotTooMuchOff, ExactlyOff, ForeverKept, InWait

(* Nothing is taken off a wait that has no end. *)
LEMMA ForeverTime ==
  ASSUME TimeInv, CheckForTimeOut, WaitsForEver
  PROVE  TimeInv'
<1> USE TickCountAssumption, OverflowAssumption, GapAssumption
    DEF TimeInv, CheckForTimeOut, clock
<1>1. /\ pc = "waiting" /\ pc' = "waiting" /\ gap' = 0
      /\ UNCHANGED <<clock, pxTicksToWait, pxTimeOut, masked, asked, waited,
                     overslept>>
  BY DEF HasTimedOut
<1>2. Forever /\ Forever'
  BY <1>1 DEF ForeverKept, Forever, InWait
<1>3. TypeOK'
  BY <1>1 DEF TypeOK
<1>4. NotTooMuchOff'
  BY <1>1, <1>3 DEF NotTooMuchOff, InWait, TypeOK, Tick
<1>5. ForeverKept'
  BY <1>1, <1>2 DEF ForeverKept, InWait
<1>. QED BY <1>1, <1>2, <1>3, <1>4, <1>5
         DEF GapTold, SetMasked, ExactlyOff, NeverEarly, Forever

(* The time waited is taken off. *)
LEMMA AdjustedTime ==
  ASSUME TimeInv, CheckForTimeOut, ~HasTimedOut, ~WaitsForEver
  PROVE  /\ TimeInv'
         /\ ~overslept => waited < asked /\ pxTicksToWait' = asked - waited
<1> USE TickCountAssumption, OverflowAssumption, GapAssumption
    DEF TimeInv, CheckForTimeOut, clock
<1>1. /\ pc = "waiting" /\ pc' = "waiting" /\ gap' = 0
      /\ pxTicksToWait' = pxTicksToWait - Elapsed
      /\ pxTimeOut' = [xOverflowCount |-> xNumOfOverflows,
                       xTimeOnEntering |-> xTickCount]
      /\ UNCHANGED <<clock, masked, asked, waited, overslept>>
  BY DEF AdjustForTimeLeft
<1>2. ~Forever
  BY <1>1 DEF ForeverKept, Forever, WaitsForEver, InWait
<1>3. /\ Elapsed \in Tick /\ Elapsed < pxTicksToWait
      /\ ~WrappedPast
  BY ElapsedIsDistance DEF HasTimedOut, TypeOK, Tick
<1>4. /\ Elapsed <= gap
      /\ gap < TickCount => Elapsed = gap
      /\ gap # TickCount
  BY <1>1, <1>2, <1>3, ElapsedTold DEF TypeOK
<1>5. TypeOK'
  BY <1>1, <1>3 DEF TypeOK, Tick
<1>6. GapTold'
  BY <1>1, <1>5 DEF GapTold, TypeOK, Tick
<1>7. NotTooMuchOff'
  BY <1>1, <1>3, <1>4 DEF NotTooMuchOff, InWait, TypeOK, Tick
<1>8. ~overslept => waited < asked /\ pxTicksToWait' = asked - waited
  <2> SUFFICES ASSUME ~overslept
               PROVE  waited < asked /\ pxTicksToWait' = asked - waited
    OBVIOUS
  <2>1. gap < TickCount
    BY <1>1, <1>2, <1>4 DEF ExactlyOff, InWait, TypeOK
  <2>2. Elapsed = gap
    BY <1>4, <2>1
  <2>3. asked - pxTicksToWait + gap < TickCount
    BY <1>3, <2>2 DEF TypeOK, Tick
  <2>4. waited = asked - pxTicksToWait + gap
    BY <1>1, <1>2, <2>3 DEF ExactlyOff, InWait, TypeOK, Tick
  <2>. QED BY <1>1, <1>3, <2>2, <2>4 DEF TypeOK, Tick
<1>9. ExactlyOff'
  BY <1>1, <1>5, <1>8 DEF ExactlyOff, InWait, TypeOK, Tick
<1>10. ForeverKept'
  BY <1>1, <1>2, <1>3 DEF ForeverKept, Forever, WaitsForEver, InWait, TypeOK,
                          Tick, portMAX_DELAY
<1>. QED BY <1>1, <1>5, <1>6, <1>7, <1>8, <1>9, <1>10 DEF SetMasked, NeverEarly

LEMMA CheckTime ==
  ASSUME TimeInv, CheckForTimeOut
  PROVE  TimeInv'
<1>1. CASE HasTimedOut
  BY <1>1, ExpiredTime
<1>2. CASE ~HasTimedOut /\ WaitsForEver
  BY <1>2, ForeverTime
<1>3. CASE ~HasTimedOut /\ ~WaitsForEver
  BY <1>3, AdjustedTime
<1>. QED BY <1>1, <1>2, <1>3

LEMMA OverTime ==
  ASSUME TimeInv, Over
  PROVE  TimeInv'
<1>1. TypeOK'
  BY DEF TimeInv, TypeOK, Over, clock, history
<1>. QED BY <1>1 DEF TimeInv, Over, GapTold, SetMasked, NotTooMuchOff,
                     ExactlyOff, ForeverKept, NeverEarly, InWait

LEMMA TickTime ==
  ASSUME TimeInv, TickInterrupt
  PROVE  TimeInv'
<1> USE TickCountAssumption, OverflowAssumption, GapAssumption
    DEF TimeInv, TickInterrupt, caller
<1>1. /\ xTickCount' = IF xTickCount + 1 = TickCount THEN 0 ELSE xTickCount + 1
      /\ xNumOfOverflows' = IF xTickCount' = 0
                            THEN NextOverflow(xNumOfOverflows)
                            ELSE xNumOfOverflows
  BY NextTick, NextCount DEF TypeOK
<1>2. pc # "set"
  BY DEF SetMasked
<1>3. TypeOK'
  <2>1. xTickCount' \in Tick /\ xNumOfOverflows' \in 0 .. OverflowCount - 1
    BY <1>1 DEF TypeOK, Tick, NextOverflow
  <2>2. waited' \in 0 .. TickCount /\ gap' \in 0 .. MaxGap
    BY DEF TypeOK
  <2>3. overslept' \in BOOLEAN
    BY DEF TypeOK
  <2>. QED BY <2>1, <2>2, <2>3 DEF TypeOK
<1>4. CASE pc = "waiting"
  <2>1. /\ gap' = gap + 1
        /\ waited' = IF waited < TickCount THEN waited + 1 ELSE waited
        /\ ~overslept' => ~overslept /\ gap' <= TickCount
    <3>1. InWait
      BY <1>4 DEF InWait
    <3>2. /\ gap' = gap + 1
          /\ waited' = IF waited < TickCount THEN waited + 1 ELSE waited
      BY <3>1
    <3>3. ~overslept' => ~overslept /\ ~(gap + 1 > TickCount)
      BY <3>1, Zenon
    <3>4. gap \in Nat
      BY DEF TypeOK
    <3>. QED BY <3>2, <3>3, <3>4
  <2>2. GapTold'
    <3> SUFFICES ASSUME ~Forever, gap + 1 <= TickCount
                 PROVE  \/ /\ xTickCount' = pxTimeOut.xTimeOnEntering + gap + 1
                           /\ xNumOfOverflows' = pxTimeOut.xOverflowCount
                        \/ /\ xTickCount' = pxTimeOut.xTimeOnEntering + gap + 1
                                              - TickCount
                           /\ xNumOfOverflows'
                                = NextOverflow(pxTimeOut.xOverflowCount)
      <4>1. pxTimeOut.xTimeOnEntering \in Int /\ gap \in Int
        BY DEF TypeOK, Tick
      <4>2. UNCHANGED <<pxTimeOut, Forever>> /\ gap' = gap + 1
        BY <2>1 DEF Forever
      <4>. QED BY <4>1, <4>2 DEF GapTold
    <3>1. CASE /\ xTickCount = pxTimeOut.xTimeOnEntering + gap
               /\ xNumOfOverflows = pxTimeOut.xOverflowCount
      BY <1>1, <3>1 DEF TypeOK, Tick
    <3>2. CASE /\ xTickCount = pxTimeOut.xTimeOnEntering + gap - TickCount
               /\ xNumOfOverflows = NextOverflow(pxTimeOut.xOverflowCount)
      BY <1>1, <3>2 DEF TypeOK, Tick
    <3>. QED BY <1>4, <3>1, <3>2 DEF GapTold, TypeOK
  <2>3. SetMasked' /\ NeverEarly'
    BY <1>4 DEF SetMasked, NeverEarly
  <2>4. NotTooMuchOff'
    BY <1>4, <2>1 DEF NotTooMuchOff, InWait, TypeOK, Tick
  <2>5. ExactlyOff'
    BY <1>4, <2>1 DEF ExactlyOff, InWait, Forever, TypeOK, Tick
  <2>6. ForeverKept'
    BY <1>4 DEF ForeverKept, InWait, Forever, WaitsForEver
  <2>. QED BY <1>3, <2>2, <2>3, <2>4, <2>5, <2>6
<1>5. CASE pc # "waiting"
  <2>1. UNCHANGED <<waited, gap>> /\ ~InWait
    BY <1>2, <1>5 DEF InWait
  <2>. QED BY <1>2, <1>3, <1>5, <2>1
           DEF GapTold, SetMasked, NotTooMuchOff, ExactlyOff, ForeverKept,
               NeverEarly, InWait
<1>. QED BY <1>4, <1>5

LEMMA TimeStep == TimeInv /\ [Next]_vars => TimeInv'
<1> SUFFICES ASSUME TimeInv, [Next]_vars PROVE TimeInv'
  OBVIOUS
<1>1. CASE UNCHANGED vars
  BY <1>1 DEF TimeInv, TypeOK, GapTold, SetMasked, NotTooMuchOff, ExactlyOff,
              ForeverKept, NeverEarly, InWait, Forever, WaitsForEver, vars,
              clock, caller, history
<1>2. CASE \E xTicksToWait \in Tick \ {0} : Begin(xTicksToWait)
  BY <1>2, BeginTime
<1>. QED BY <1>1, <1>2, NotedTime, CheckTime, OverTime, TickTime DEF Next

(* NeverEarly: whatever the widths of the two counters, xTaskCheckForTimeOut
   never ends a wait before its ticks have passed, and never ends one of
   portMAX_DELAY. *)
THEOREM EndsNotEarly == Spec => []NeverEarly
<1>1. Init => TimeInv
  BY InitTime
<1>2. TimeInv /\ [Next]_vars => TimeInv'
  BY TimeStep
<1>3. TimeInv => NeverEarly
  BY DEF TimeInv
<1>. QED BY <1>1, <1>2, <1>3, PTL DEF Spec

(* NeverLate: where the caller looks at least once in every full count of ticks,
   no look after the end lets it wait on, and what it is left with is exact. *)
THEOREM EndsInTime == Spec => NeverLate
<1> DEFINE Told == CheckForTimeOut /\ pc' = "waiting" /\ ~overslept =>
                     \/ WaitsForEver
                     \/ waited < asked /\ pxTicksToWait' = asked - waited
<1>1. Init => TimeInv
  BY InitTime
<1>2. TimeInv /\ [Next]_vars => TimeInv'
  BY TimeStep
<1>3. TimeInv /\ [Next]_vars => [Told]_vars
  <2> SUFFICES ASSUME TimeInv, CheckForTimeOut, pc' = "waiting", ~overslept,
                      ~WaitsForEver
               PROVE  waited < asked /\ pxTicksToWait' = asked - waited
    OBVIOUS
  <2>1. ~HasTimedOut
    BY DEF CheckForTimeOut
  <2>. QED BY <2>1, AdjustedTime
<1>4. Spec => [][Told]_vars
  BY <1>1, <1>2, <1>3, PTL DEF Spec
<1>. QED BY <1>4 DEF NeverLate

=============================================================================

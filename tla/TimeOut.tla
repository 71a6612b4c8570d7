------------------------------ MODULE TimeOut -------------------------------
(***************************************************************************)
(* The time-out service of tasks.c: vTaskSetTimeOutState notes when a wait *)
(* began, xTaskCheckForTimeOut tells whether its block time has passed and *)
(* takes the time already waited off what is left.  The tick count and the *)
(* number of its overflows wrap; the module keeps the true time beside     *)
(* them.  The caller is the retry loop of a blocking queue operation,      *)
(* which is outside this repository: it notes the time in a critical       *)
(* section, is woken by an event that another task may take first, looks   *)
(* again and goes on waiting, so that one wait spans several looks.        *)
(***************************************************************************)
EXTENDS Integers

CONSTANTS
  TickCount,              \* number of values of portTickType (2^32 in the port)
  OverflowCount,          \* number of values of xNumOfOverflows (2^32)
  INCLUDE_vTaskSuspend,
  MaxGap                  \* bound: ticks from one look of a wait to the next

ASSUME TickCountAssumption == TickCount \in Nat /\ TickCount >= 2
ASSUME OverflowAssumption == OverflowCount \in Nat /\ OverflowCount >= 2
ASSUME IncludeAssumption == INCLUDE_vTaskSuspend \in BOOLEAN
ASSUME GapAssumption == MaxGap \in Nat \ {0}

Tick == 0 .. TickCount - 1
portMAX_DELAY == TickCount - 1

VARIABLES
  xTickCount, xNumOfOverflows,
  pxTimeOut,       \* the caller's xTimeOutType
  pxTicksToWait,   \* the caller's remaining block time
  masked,          \* the caller is in a critical section
  pc,              \* "idle", "set" (half of vTaskSetTimeOutState done),
                   \* "waiting", "expired"
  asked,           \* history: the block time the caller began with
  waited,          \* history: ticks since it began, no further than TickCount
  gap,             \* history: ticks since the time was last noted
  overslept        \* history: a gap of this wait was longer than TickCount

clock == <<xTickCount, xNumOfOverflows>>
caller == <<pxTimeOut, pxTicksToWait, masked, pc, asked>>
history == <<waited, gap, overslept>>
vars == <<clock, caller, history>>

TypeOK ==
  /\ xTickCount \in Tick
  /\ xNumOfOverflows \in 0 .. OverflowCount - 1
  /\ pxTimeOut \in [xOverflowCount : 0 .. OverflowCount - 1,
                    xTimeOnEntering : Tick]
  /\ pxTicksToWait \in Tick
  /\ masked \in BOOLEAN
  /\ pc \in {"idle", "set", "waiting", "expired"}
  /\ asked \in Tick
  /\ waited \in 0 .. TickCount
  /\ gap \in 0 .. MaxGap
  /\ overslept \in BOOLEAN

(* The caller may begin its first wait at any time. *)
Init ==
  /\ xTickCount \in Tick
  /\ xNumOfOverflows \in 0 .. OverflowCount - 1
  /\ pxTimeOut = [xOverflowCount |-> 0, xTimeOnEntering |-> 0]
  /\ pxTicksToWait = 0
  /\ masked = FALSE
  /\ pc = "idle"
  /\ asked = 0
  /\ waited = 0
  /\ gap = 0
  /\ overslept = FALSE

-----------------------------------------------------------------------------
(* Mutated form: the caller notes the time outside a critical section. *)
EnterCritical_Not == masked' = FALSE

EnterCritical == masked' = TRUE

(* The queue operation finds that it has to wait, in a critical section, and
   calls vTaskSetTimeOutState: first the number of overflows is read ... *)
Begin(xTicksToWait) ==
  /\ pc = "idle"
  /\ EnterCritical
  /\ pxTicksToWait' = xTicksToWait
  /\ pxTimeOut' = [pxTimeOut EXCEPT !.xOverflowCount = xNumOfOverflows]
  /\ pc' = "set"
  /\ asked' = xTicksToWait
  /\ waited' = 0
  /\ gap' = 0
  /\ overslept' = FALSE
  /\ UNCHANGED clock

(* ... then the tick count; the critical section ends. *)
Noted ==
  /\ pc = "set"
  /\ pxTimeOut' = [pxTimeOut EXCEPT !.xTimeOnEntering = xTickCount]
  /\ masked' = FALSE
  /\ pc' = "waiting"
  /\ UNCHANGED <<clock, pxTicksToWait, asked, history>>

Elapsed == (xTickCount - pxTimeOut.xTimeOnEntering) % TickCount

(* "It must have wrapped all the way around and gone past us again." *)
WrappedPast ==
  /\ xNumOfOverflows # pxTimeOut.xOverflowCount
  /\ xTickCount >= pxTimeOut.xTimeOnEntering

WaitsForEver == INCLUDE_vTaskSuspend /\ pxTicksToWait = portMAX_DELAY

(* Mutated form: overflows are not looked at. *)
HasTimedOut_TickOnly == ~WaitsForEver /\ Elapsed >= pxTicksToWait

HasTimedOut == ~WaitsForEver /\ (WrappedPast \/ Elapsed >= pxTicksToWait)

(* Mutated form: the time is noted anew, but nothing is taken off. *)
AdjustForTimeLeft_NothingOff ==
  /\ pxTimeOut' = [xOverflowCount |-> xNumOfOverflows,
                   xTimeOnEntering |-> xTickCount]
  /\ gap' = 0
  /\ UNCHANGED pxTicksToWait

(* "Not a genuine timeout. Adjust parameters for time remaining." *)
AdjustForTimeLeft ==
  /\ pxTicksToWait' = pxTicksToWait - Elapsed
  /\ pxTimeOut' = [xOverflowCount |-> xNumOfOverflows,
                   xTimeOnEntering |-> xTickCount]
  /\ gap' = 0

(* xTaskCheckForTimeOut, one critical section. *)
CheckForTimeOut ==
  /\ pc = "waiting"
  /\ IF HasTimedOut
     THEN /\ pc' = "expired"
          /\ UNCHANGED <<pxTicksToWait, pxTimeOut, gap>>
     ELSE /\ pc' = "waiting"
          /\ IF WaitsForEver
             THEN gap' = 0 /\ UNCHANGED <<pxTicksToWait, pxTimeOut>>
             ELSE AdjustForTimeLeft
  /\ UNCHANGED <<clock, masked, asked, waited, overslept>>

(* The queue operation succeeds, or gives up: the wait is over. *)
Over ==
  /\ pc \in {"waiting", "expired"}
  /\ pc' = "idle"
  /\ UNCHANGED <<clock, pxTimeOut, pxTicksToWait, masked, asked, history>>

InWait == pc \in {"set", "waiting"}

(* The tick interrupt, or a tick that xTaskResumeAll replays. *)
TickInterrupt ==
  /\ ~masked
  /\ InWait => gap < MaxGap
  /\ xTickCount' = (xTickCount + 1) % TickCount
  /\ xNumOfOverflows' = IF xTickCount' = 0
                        THEN (xNumOfOverflows + 1) % OverflowCount
                        ELSE xNumOfOverflows
  /\ waited' = IF InWait /\ waited < TickCount THEN waited + 1 ELSE waited
  /\ gap' = IF InWait THEN gap + 1 ELSE gap
  /\ overslept' = (overslept \/ (InWait /\ gap + 1 > TickCount))
  /\ UNCHANGED caller

Next ==
  \/ \E xTicksToWait \in Tick \ {0} : Begin(xTicksToWait)
  \/ Noted
  \/ CheckForTimeOut
  \/ Over
  \/ TickInterrupt

Spec == Init /\ [][Next]_vars

(* The timer ticks, and a waiting caller comes to look: its delay ends by a
   tick at the latest.  Nobody has to make the event happen. *)
FairSpec ==
  Spec /\ WF_vars(TickInterrupt) /\ WF_vars(Noted) /\ WF_vars(CheckForTimeOut)

-----------------------------------------------------------------------------
(* A wait never ends early: xTaskCheckForTimeOut says so only when the ticks
   asked for have passed, over all its looks and however long the caller was
   kept from looking; and portMAX_DELAY never ends (where vTaskSuspend is
   compiled in). *)
NeverEarly ==
  pc = "expired" => /\ waited >= asked
                    /\ ~(INCLUDE_vTaskSuspend /\ asked = portMAX_DELAY)

(* Nor late: a look that lets the caller wait on comes before the ticks asked
   for have passed, and leaves it exactly the rest, provided that the caller has
   looked at least once in every full count of ticks.  After more than that
   xTaskCheckForTimeOut cannot tell one overflow from two. *)
NeverLate ==
  [][CheckForTimeOut /\ pc' = "waiting" /\ ~overslept =>
       \/ WaitsForEver
       \/ waited < asked /\ pxTicksToWait' = asked - waited]_vars

(* Every wait with a block time ends. *)
WaitEnds ==
  (pc = "waiting" /\ ~WaitsForEver) ~> pc # "waiting"

=============================================================================

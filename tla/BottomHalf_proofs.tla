-------------------------- MODULE BottomHalf_proofs --------------------------
(***************************************************************************)
(* For every driver of ExitSteps and any number of interrupts: no accepted *)
(* request is lost, every run is earned by an interrupt, and a workqueue   *)
(* is freed only when it is idle.                                          *)
(*                                                                         *)
(* For any period and any length of time: the hrtimer's expiries stay on   *)
(* their grid, neither timer bursts, the timer_list leaves a full period   *)
(* between callbacks, and hrtimer_cancel leaves nothing behind.            *)
(***************************************************************************)
EXTENDS BottomHalf, PeriodicTimer, TLAPS

-----------------------------------------------------------------------------
(* The interrupt bottom halves *)

\* A request that is pending has not been answered by a run yet.
Earned == runs + (IF pending THEN 1 ELSE 0) <= irqs

OwnQueue == {"own_workqueue", "linked_list"}

\* The drivers with a queue of their own free no tasklet.
NoKfree == driver \in OwnQueue => \A i \in 1..Len(todo) : todo[i] # "kfree"

IInv == TypeOK /\ NothingOwedIsLost /\ Earned /\ NoKfree /\ DestroyedIdle

LEMMA ExitStepsTyped ==
  ASSUME NEW d \in Drivers
  PROVE  /\ ExitSteps[d] \in Seq(Steps)
         /\ d \in OwnQueue => \A i \in 1..Len(ExitSteps[d]) : ExitSteps[d][i] # "kfree"
<1>1. CASE d \in {"workqueue_static", "workqueue_dynamic"}
  <2>1. ExitSteps[d] = <<"free_irq">>  BY <1>1 DEF ExitSteps
  <2> QED  BY <1>1, <2>1 DEF Steps, OwnQueue
<1>2. CASE d \in OwnQueue
  <2>1. ExitSteps[d] = <<"drain", "destroy_workqueue", "free_irq">>
    BY <1>2 DEF ExitSteps, OwnQueue
  <2> QED  BY <2>1 DEF Steps
<1>3. CASE d = "tasklet_static"
  <2>1. ExitSteps[d] = <<"tasklet_kill", "free_irq">>  BY <1>3 DEF ExitSteps
  <2> QED  BY <1>3, <2>1 DEF Steps, OwnQueue
<1>4. CASE d = "tasklet_dynamic"
  <2>1. ExitSteps[d] = <<"tasklet_kill", "kfree", "free_irq">>  BY <1>4 DEF ExitSteps
  <2> QED  BY <1>4, <2>1 DEF Steps, OwnQueue
<1> QED
  BY <1>1, <1>2, <1>3, <1>4, DriversAssumption DEF ExitSteps, OwnQueue

LEMMA InitInvariant == Init => IInv
<1> SUFFICES ASSUME Init PROVE IInv  OBVIOUS
<1>1. TypeOK
  <2>1. irqs \in 0..MaxIrqs /\ runs \in Nat  BY MaxIrqsAssumption DEF Init
  <2>2. driver \in Drivers /\ todo \in Seq(Steps)  BY ExitStepsTyped DEF Init
  <2> QED  BY <2>1, <2>2 DEF Init, TypeOK
<1>2. NoKfree
  BY ExitStepsTyped DEF Init, NoKfree
<1>3. NothingOwedIsLost /\ Earned /\ DestroyedIdle
  BY DEF Init, NothingOwedIsLost, Earned, DestroyedIdle
<1> QED  BY <1>1, <1>2, <1>3 DEF IInv

\* A step of exit leaves the handler and the function alone, and takes one step
\* off the list.
LEMMA ExitStepKeeps ==
  ASSUME IInv, NEW step, ExitStep(step), queue' \in {"open", "draining", "gone"}
  PROVE  TypeOK' /\ NothingOwedIsLost' /\ Earned' /\ NoKfree'
<1>1. todo' \in Seq(Steps) /\ \A i \in 1..Len(todo') : i + 1 \in 1..Len(todo) /\ todo'[i] = todo[i + 1]
  BY DEF ExitStep, IInv, TypeOK
<1>2. TypeOK'
  BY <1>1 DEF ExitStep, IInv, TypeOK
<1>3. NoKfree'
  BY <1>1 DEF ExitStep, IInv, NoKfree
<1>4. NothingOwedIsLost' /\ Earned'
  BY DEF ExitStep, IInv, NothingOwedIsLost, Earned
<1> QED  BY <1>2, <1>3, <1>4

LEMMA StepInvariant == IInv /\ [Next]_vars => IInv'
<1> SUFFICES ASSUME IInv, [Next]_vars PROVE IInv'  OBVIOUS
<1>1. CASE IrqHandler
  <2>1. TypeOK'
    <3>1. irqs' \in 0..MaxIrqs
      BY <1>1, MaxIrqsAssumption DEF IrqHandler, IInv, TypeOK
    <3>2. pending' \in BOOLEAN /\ owed' \in BOOLEAN
      BY <1>1 DEF IrqHandler, IInv, TypeOK
    <3> QED  BY <1>1, <3>1, <3>2 DEF IrqHandler, IInv, TypeOK
  <2>2. NothingOwedIsLost' /\ NoKfree' /\ DestroyedIdle'
    BY <1>1 DEF IrqHandler, IInv, NothingOwedIsLost, NoKfree, DestroyedIdle
  <2>3. Earned'
    BY <1>1 DEF IrqHandler, IInv, TypeOK, Earned
  <2> QED  BY <2>1, <2>2, <2>3 DEF IInv
<1>2. CASE Start
  <2>1. TypeOK'
    <3>1. runs' \in Nat  BY <1>2 DEF Start, IInv, TypeOK
    <3> QED  BY <1>2, <3>1 DEF Start, IInv, TypeOK
  <2>2. NothingOwedIsLost' /\ NoKfree' /\ DestroyedIdle'
    BY <1>2 DEF Start, IInv, NothingOwedIsLost, NoKfree, DestroyedIdle
  <2>3. Earned'  BY <1>2 DEF Start, IInv, TypeOK, Earned
  <2> QED  BY <2>1, <2>2, <2>3 DEF IInv
<1>3. CASE Return
  BY <1>3 DEF Return, IInv, TypeOK, NothingOwedIsLost, Earned, NoKfree, DestroyedIdle
<1>4. CASE Rmmod
  BY <1>4 DEF Rmmod, IInv, TypeOK, NothingOwedIsLost, Earned, NoKfree, DestroyedIdle
<1>5. CASE Drain
  <2>1. TypeOK' /\ NothingOwedIsLost' /\ Earned' /\ NoKfree'
    BY <1>5, ExitStepKeeps DEF Drain
  <2>2. DestroyedIdle'  BY <1>5 DEF Drain, DestroyedIdle
  <2> QED  BY <2>1, <2>2 DEF IInv
<1>6. CASE DestroyWorkqueue
  <2>1. TypeOK' /\ NothingOwedIsLost' /\ Earned' /\ NoKfree'
    BY <1>6, ExitStepKeeps DEF DestroyWorkqueue
  <2>2. DestroyedIdle'  BY <1>6 DEF DestroyWorkqueue, ExitStep, DestroyedIdle
  <2> QED  BY <2>1, <2>2 DEF IInv
<1>7. CASE TaskletKill
  <2>1. TypeOK' /\ NothingOwedIsLost' /\ Earned' /\ NoKfree'
    BY <1>7, ExitStepKeeps DEF TaskletKill, IInv, TypeOK
  <2>2. DestroyedIdle'  BY <1>7 DEF TaskletKill, ExitStep, DestroyedIdle
  <2> QED  BY <2>1, <2>2 DEF IInv
<1>8. CASE Kfree
  <2>1. TypeOK' /\ NothingOwedIsLost' /\ Earned' /\ NoKfree'
    BY <1>8, ExitStepKeeps DEF Kfree
  <2>2. driver \notin OwnQueue
    <3>1. todo \in Seq(Steps) /\ todo # <<>> /\ todo[1] = "kfree"
      BY <1>8 DEF Kfree, ExitStep, IInv, TypeOK
    <3>2. 1 \in 1..Len(todo)  BY <3>1
    <3> QED  BY <3>1, <3>2 DEF IInv, NoKfree
  <2>3. DestroyedIdle'
    BY <1>8, <2>2 DEF Kfree, ExitStep, DestroyedIdle, OwnQueue
  <2> QED  BY <2>1, <2>3 DEF IInv
<1>9. CASE FreeIrq
  <2>1. TypeOK' /\ NothingOwedIsLost' /\ Earned' /\ NoKfree'
    BY <1>9, ExitStepKeeps DEF FreeIrq, IInv, TypeOK
  <2>2. DestroyedIdle'  BY <1>9 DEF FreeIrq, ExitStep, IInv, DestroyedIdle
  <2> QED  BY <2>1, <2>2 DEF IInv
<1>10. CASE Unloaded
  BY <1>10 DEF Unloaded, IInv, TypeOK, NothingOwedIsLost, Earned, NoKfree, DestroyedIdle
<1>11. CASE UNCHANGED vars
  BY <1>11 DEF vars, IInv, TypeOK, NothingOwedIsLost, Earned, NoKfree, DestroyedIdle
<1> QED
  BY <1>1, <1>2, <1>3, <1>4, <1>5, <1>6, <1>7, <1>8, <1>9, <1>10, <1>11 DEF Next, Exit

\* In every reachable state of the interrupt, the deferred function and
\* module_exit of 12, 13 and 15, the strengthened invariant holds.
THEOREM Invariant == Spec => []IInv
<1>1. Init => IInv  BY InitInvariant
<1>2. IInv /\ [Next]_vars => IInv'  BY StepInvariant
<1> QED  BY <1>1, <1>2, PTL DEF Spec

\* The variables of the bottom half keep their types.
THEOREM TypeCorrect == Spec => []TypeOK
<1>1. IInv => TypeOK  BY DEF IInv
<1> QED  BY <1>1, Invariant, PTL

\* An interrupt whose request schedule_work, queue_work or tasklet_schedule
\* accepted stays pending until a run begins after it.
THEOREM NothingIsLost == Spec => []NothingOwedIsLost
<1>1. IInv => NothingOwedIsLost  BY DEF IInv
<1> QED  BY <1>1, Invariant, PTL

\* workqueue_fn and tasklet_fn never run more often than the line was raised.
THEOREM RunsEarned == Spec => []RunsAreEarned
<1>1. IInv => RunsAreEarned
  BY DEF IInv, TypeOK, Earned, RunsAreEarned
<1> QED  BY <1>1, Invariant, PTL

\* destroy_workqueue of 12_workqueue/own_workqueue and 13_linked_list frees the
\* queue when its function neither runs nor waits to run, and it stays so.
THEOREM QueueFreedIdle == Spec => []DestroyedIdle
<1>1. IInv => DestroyedIdle  BY DEF IInv
<1> QED  BY <1>1, Invariant, PTL

\* The two together: interrupts and runs of the bottom half correspond.
THEOREM RunsAreMatched == Spec => []RunsMatchInterrupts
<1> QED  BY NothingIsLost, RunsEarned, PTL DEF RunsMatchInterrupts

-----------------------------------------------------------------------------
(* The periodic timers *)

\* A queued timer has no callback at work.  Between Expire and the re-arming
\* the expiry lies in the past.
Shape ==
  /\ queued => callback = "none"
  /\ callback \in {"print", "rearm"} => now >= expires
  /\ started <= now

\* The expiry of the hrtimer is a multiple of the period.
OnGrid == kind = "hrtimer" => \E m \in Nat : expires = Period * m

\* The clock, and the expiry, are ahead of the callbacks counted so far; a
\* callback that has begun and not counted is ahead by one more.
Ahead ==
  /\ count * Period <= now
  /\ callback = "print" => count * Period + Period <= now /\ count * Period + Period <= expires
  /\ callback = "rearm" => count * Period <= expires
  /\ queued \/ callback = "restart" => count * Period + Period <= expires

\* A queued timer_list expires no sooner than a period after the last callback.
Spaced == kind = "timer_list" /\ queued => expires >= started + Period

TimerInv == TimerTypeOK /\ Shape /\ OnGrid /\ Ahead /\ Spaced /\ QuietAfterCancel

\* Whole periods that lead past a lapse of time, and no further than a period.
LEMMA WholePeriods ==
  ASSUME NEW d \in Nat
  PROVE  /\ d \div Period \in Nat
         /\ Period * (d \div Period + 1) \in Nat
         /\ Period * (d \div Period + 1) >= Period
         /\ Period * (d \div Period + 1) <= d + Period
<1>1. d \div Period \in Nat /\ Period * (d \div Period) <= d
  BY PeriodAssumption
<1>2. Period * (d \div Period + 1) = Period * (d \div Period) + Period
  BY <1>1, PeriodAssumption
<1> QED  BY <1>1, <1>2, PeriodAssumption

\* Going on by whole periods stays on the grid.
LEMMA SumOnGrid ==
  ASSUME NEW m \in Nat, NEW q \in Nat
  PROVE  Period * m + Period * (q + 1) = Period * (m + q + 1)
BY PeriodAssumption

\* The grid is what % finds.
LEMMA GridIsMultiple ==
  ASSUME NEW m \in Nat
  PROVE  (Period * m) % Period = 0
BY PeriodAssumption

\* One more callback is one more period.
LEMMA OneMore ==
  ASSUME NEW c \in Nat
  PROVE  (c + 1) * Period = c * Period + Period /\ c * Period \in Nat
BY PeriodAssumption

\* The invariant of the timers holds first, ...
LEMMA TimerStarts == TimerInit => TimerInv
<1> SUFFICES ASSUME TimerInit PROVE TimerInv  OBVIOUS
<1> USE PeriodAssumption, MaxTimeAssumption
<1>1. TimerTypeOK
  <2>1. now \in 0..MaxTime /\ started \in 0..MaxTime /\ expires \in 0..MaxTime + Period
    BY DEF TimerInit
  <2> QED  BY <2>1 DEF TimerInit, TimerTypeOK
<1>2. Period = Period * 1  OBVIOUS
<1>3. OnGrid  BY <1>2 DEF TimerInit, OnGrid
<1>4. 0 * Period = 0  OBVIOUS
<1>5. Shape /\ Ahead /\ Spaced /\ QuietAfterCancel
  BY <1>4 DEF TimerInit, Shape, Ahead, Spaced, QuietAfterCancel
<1> QED  BY <1>1, <1>3, <1>5 DEF TimerInv

\* ... and every step keeps it.
LEMMA TimerSteps == TimerInv /\ [TimerNext]_timerVars => TimerInv'
<1> SUFFICES ASSUME TimerInv, [TimerNext]_timerVars PROVE TimerInv'  OBVIOUS
<1> USE PeriodAssumption, MaxTimeAssumption
<1>0. TimerTypeOK /\ Shape /\ OnGrid /\ Ahead /\ Spaced /\ QuietAfterCancel
  BY DEF TimerInv
<1>a. count * Period \in Nat  BY <1>0, OneMore DEF TimerTypeOK
<1>1. CASE Tick
  <2>1. TimerTypeOK'
    <3>1. now' \in 0..MaxTime  BY <1>0, <1>1 DEF Tick, TimerTypeOK
    <3> QED  BY <1>0, <1>1, <3>1 DEF Tick, TimerTypeOK
  <2>2. Shape'  BY <1>0, <1>1 DEF Tick, TimerTypeOK, Shape
  <2>3. Ahead'  BY <1>0, <1>1, <1>a DEF Tick, TimerTypeOK, Ahead
  <2>4. OnGrid' /\ Spaced' /\ QuietAfterCancel'
    BY <1>0, <1>1 DEF Tick, OnGrid, Spaced, QuietAfterCancel
  <2> QED  BY <2>1, <2>2, <2>3, <2>4 DEF TimerInv
<1>2. CASE Expire
  <2>1. TimerTypeOK'  BY <1>0, <1>2 DEF Expire, TimerTypeOK
  <2>2. Shape'  BY <1>0, <1>2 DEF Expire, TimerTypeOK, Shape
  <2>3. Ahead'  BY <1>0, <1>2, <1>a DEF Expire, TimerTypeOK, Ahead
  <2>4. OnGrid' /\ Spaced' /\ QuietAfterCancel'
    BY <1>0, <1>2 DEF Expire, OnGrid, Spaced, QuietAfterCancel
  <2> QED  BY <2>1, <2>2, <2>3, <2>4 DEF TimerInv
<1>3. CASE PrInfo
  <2>1. TimerTypeOK'
    <3>1. count' \in Nat  BY <1>0, <1>3 DEF PrInfo, TimerTypeOK
    <3> QED  BY <1>0, <1>3, <3>1 DEF PrInfo, TimerTypeOK
  <2>2. Shape'  BY <1>0, <1>3 DEF PrInfo, Shape
  <2>3. Ahead'
    <3>1. count' * Period = count * Period + Period
      BY <1>0, <1>3, OneMore DEF PrInfo, TimerTypeOK
    <3>2. ~queued  BY <1>0, <1>3 DEF PrInfo, Shape
    <3> QED  BY <1>0, <1>3, <3>1, <3>2 DEF PrInfo, Ahead
  <2>4. OnGrid' /\ Spaced' /\ QuietAfterCancel'
    BY <1>0, <1>3 DEF PrInfo, OnGrid, Spaced, QuietAfterCancel
  <2> QED  BY <2>1, <2>2, <2>3, <2>4 DEF TimerInv
<1>4. CASE ModTimer
  <2>1. TimerTypeOK'
    <3>1. expires' \in 0..MaxTime + Period  BY <1>0, <1>4 DEF ModTimer, TimerTypeOK
    <3> QED  BY <1>0, <1>4, <3>1 DEF ModTimer, TimerTypeOK
  <2>2. Shape'  BY <1>0, <1>4 DEF ModTimer, Shape
  <2>3. Ahead'  BY <1>0, <1>4, <1>a DEF ModTimer, TimerTypeOK, Ahead
  <2>4. Spaced'  BY <1>0, <1>4 DEF ModTimer, TimerTypeOK, Shape, Spaced
  <2>5. OnGrid' /\ QuietAfterCancel'
    BY <1>0, <1>4 DEF ModTimer, OnGrid, QuietAfterCancel
  <2> QED  BY <2>1, <2>2, <2>3, <2>4, <2>5 DEF TimerInv
<1>5. CASE HrtimerForwardNow
  <2> DEFINE d == now - expires
             q == d \div Period
  <2>1. d \in Nat  BY <1>0, <1>5 DEF HrtimerForwardNow, TimerTypeOK, Shape
  <2>2. /\ q \in Nat /\ Period * (q + 1) \in Nat
        /\ Period * (q + 1) >= Period /\ Period * (q + 1) <= d + Period
    BY <2>1, WholePeriods
  <2>3. expires' = expires + Period * (q + 1)  BY <1>5 DEF HrtimerForwardNow
  <2>4. OnGrid'
    <3>1. PICK m \in Nat : expires = Period * m
      BY <1>0, <1>5 DEF HrtimerForwardNow, OnGrid
    <3>2. expires' = Period * (m + q + 1)  BY <2>2, <2>3, <3>1, SumOnGrid
    <3>3. m + q + 1 \in Nat  BY <2>2
    <3> QED  BY <3>2, <3>3 DEF OnGrid
  <2>5. expires \in Nat /\ now \in 0..MaxTime  BY <1>0 DEF TimerTypeOK
  <2>6. TimerTypeOK'
    <3>1. expires + d = now  BY <2>5
    <3> HIDE DEF d
    <3>2. expires' \in 0..MaxTime + Period  BY <2>1, <2>2, <2>3, <2>5, <3>1
    <3> QED  BY <1>0, <1>5, <3>2 DEF HrtimerForwardNow, TimerTypeOK
  <2>7. Ahead'
    <3> HIDE DEF d, q
    <3>1. expires' >= expires + Period  BY <2>2, <2>3, <2>5
    <3>2. ~queued /\ count * Period <= expires
      BY <1>0, <1>5 DEF HrtimerForwardNow, Shape, Ahead
    <3>3. count * Period + Period <= expires'
      BY <1>a, <2>2, <2>3, <2>5, <3>2
    <3> QED  BY <1>0, <1>5, <3>2, <3>3 DEF HrtimerForwardNow, Ahead
  <2>8. Shape' /\ Spaced' /\ QuietAfterCancel'
    BY <1>0, <1>5 DEF HrtimerForwardNow, Shape, Spaced, QuietAfterCancel
  <2> QED  BY <2>4, <2>6, <2>7, <2>8 DEF TimerInv
<1>6. CASE Restart
  <2>1. TimerTypeOK'  BY <1>0, <1>6 DEF Restart, TimerTypeOK
  <2>2. Ahead'  BY <1>0, <1>6 DEF Restart, Ahead
  <2>3. Spaced'  BY <1>0, <1>6 DEF Restart, TimerTypeOK, Spaced
  <2>4. Shape' /\ OnGrid' /\ QuietAfterCancel'
    BY <1>0, <1>6 DEF Restart, Shape, OnGrid, QuietAfterCancel
  <2> QED  BY <2>1, <2>2, <2>3, <2>4 DEF TimerInv
<1>7. CASE TimerRmmod
  BY <1>0, <1>7
     DEF TimerRmmod, TimerTypeOK, Shape, OnGrid, Ahead, Spaced, QuietAfterCancel, TimerInv
<1>8. CASE DelTimer
  BY <1>0, <1>8 DEF DelTimer, TimerTypeOK, Shape, OnGrid, Ahead, Spaced, QuietAfterCancel, TimerInv
<1>9. CASE HrtimerCancel
  BY <1>0, <1>9
     DEF HrtimerCancel, TimerTypeOK, Shape, OnGrid, Ahead, Spaced, QuietAfterCancel, TimerInv
<1>10. CASE CleanUp
  BY <1>0, <1>10 DEF CleanUp, TimerTypeOK, Shape, OnGrid, Ahead, Spaced, QuietAfterCancel, TimerInv
<1>11. CASE UNCHANGED timerVars
  BY <1>0, <1>11
     DEF timerVars, TimerTypeOK, Shape, OnGrid, Ahead, Spaced, QuietAfterCancel, TimerInv
<1> QED
  BY <1>1, <1>2, <1>3, <1>4, <1>5, <1>6, <1>7, <1>8, <1>9, <1>10, <1>11 DEF TimerNext

\* In every reachable state of the two timers the strengthened invariant holds.
THEOREM TimerInvariant == TimerSpec => []TimerInv
<1>1. TimerInit => TimerInv  BY TimerStarts
<1>2. TimerInv /\ [TimerNext]_timerVars => TimerInv'  BY TimerSteps
<1> QED  BY <1>1, <1>2, PTL DEF TimerSpec

\* The variables keep their types; in particular no expiry lies more than a
\* period ahead of the clock's last reading.
THEOREM TimerIsTyped == TimerSpec => []TimerTypeOK
<1>1. TimerInv => TimerTypeOK  BY DEF TimerInv
<1> QED  BY <1>1, TimerInvariant, PTL

\* hrtimer_forward_now keeps the period from drifting, however late the callbacks
\* of 20_high_resolution_timer run.
THEOREM GridIsKept == TimerSpec => []NoDrift
<1>1. TimerInv => NoDrift
  BY GridIsMultiple DEF TimerInv, OnGrid, NoDrift
<1> QED  BY <1>1, TimerInvariant, PTL

\* Neither driver catches up on late callbacks with a burst.
THEOREM NeverBursts == TimerSpec => []NoBurst
<1>1. TimerInv => NoBurst  BY DEF TimerInv, Ahead, NoBurst
<1> QED  BY <1>1, TimerInvariant, PTL

\* The two together: the hrtimer keeps time.
THEOREM TimeIsKept == TimerSpec => []KeepsTime
<1> QED  BY GridIsKept, NeverBursts, PTL DEF KeepsTime

\* Behind hrtimer_cancel the module of 20_high_resolution_timer can be freed, behind
\* del_timer that of 19_kernel_timer if no callback was at work.
THEOREM CancelIsQuiet == TimerSpec => []QuietAfterCancel
<1>1. TimerInv => QuietAfterCancel  BY DEF TimerInv
<1> QED  BY <1>1, TimerInvariant, PTL

\* mod_timer(jiffies + TIMEOUT) in the callback of 19_kernel_timer leaves a full
\* period between two callbacks.
THEOREM PeriodIsFull == TimerSpec => FullPeriodBetweenCallbacks
<1>1. TimerInv /\ [TimerNext]_timerVars =>
        [Expire /\ kind = "timer_list" => now >= started + Period]_timerVars
  <2> SUFFICES ASSUME TimerInv, Expire, kind = "timer_list"
               PROVE  now >= started + Period
    OBVIOUS
  <2> QED  BY PeriodAssumption DEF TimerInv, TimerTypeOK, Spaced, Expire
<1> QED  BY <1>1, TimerInvariant, PTL DEF TimerSpec, FullPeriodBetweenCallbacks
=============================================================================

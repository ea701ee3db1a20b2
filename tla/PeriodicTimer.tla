---------------------------- MODULE PeriodicTimer ----------------------------
(***************************************************************************)
(* The periodic callbacks of two drivers, one of which is loaded:          *)
(*   "timer_list"  19_kernel_timer/driver.c: timer_callback counts and     *)
(*                 re-arms the timer TIMEOUT after the present jiffy;      *)
(*                 exit calls del_timer, which takes a queued timer off    *)
(*                 and does not wait for a callback that is running;       *)
(*   "hrtimer"     20_high_resolution_timer/driver.c: timer_callback       *)
(*                 counts, moves the expiry forward by whole intervals and *)
(*                 asks to be restarted; exit calls hrtimer_cancel, which  *)
(*                 waits for the callback and dequeues the timer.          *)
(***************************************************************************)
EXTENDS Naturals

CONSTANTS Period,      \* TIMEOUT in jiffies; TIMEOUT_SEC and TIMEOUT_NSEC
          MaxTime      \* bound on the clock of a behaviour

ASSUME PeriodAssumption  == Period \in Nat \ {0}
ASSUME MaxTimeAssumption == MaxTime \in Nat

VARIABLES
  kind,       \* the driver: "timer_list" | "hrtimer"
  now,        \* jiffies, or CLOCK_MONOTONIC
  queued,     \* the timer is on the kernel's queue ...
  expires,    \* ... for this time
  callback,   \* timer_callback: "none" | "print" | "rearm" | "restart"
  count,      \* the driver's counter: callbacks so far
  started,    \* history: when the last callback began
  exit,       \* etx_driver_exit: "loaded" | "stop" | "cleanup" | "unloaded"
  raced       \* history: del_timer found the callback at work

timerVars == <<kind, now, queued, expires, callback, count, started, exit, raced>>

TimerTypeOK ==
  /\ kind \in {"timer_list", "hrtimer"}
  /\ now \in 0..MaxTime /\ started \in 0..MaxTime
  /\ expires \in 0..MaxTime + Period
  /\ count \in Nat
  /\ queued \in BOOLEAN
  /\ callback \in {"none", "print", "rearm", "restart"}
  /\ callback = "restart" => kind = "hrtimer"
  /\ exit \in {"loaded", "stop", "cleanup", "unloaded"}
  /\ raced \in BOOLEAN

\* etx_driver_init: timer_setup and mod_timer; hrtimer_init and hrtimer_start
TimerInit ==
  /\ kind \in {"timer_list", "hrtimer"}
  /\ now = 0 /\ queued = TRUE /\ expires = Period
  /\ callback = "none" /\ count = 0 /\ started = 0
  /\ exit = "loaded" /\ raced = FALSE

-----------------------------------------------------------------------------
(* The clock and the callback *)

Tick ==
  /\ now < MaxTime
  /\ now' = now + 1
  /\ UNCHANGED <<kind, queued, expires, callback, count, started, exit, raced>>

\* The kernel takes a timer that is due off its queue and runs it, perhaps late.
Expire ==
  /\ queued /\ now >= expires /\ callback = "none"
  /\ queued' = FALSE
  /\ callback' = "print"
  /\ started' = now
  /\ UNCHANGED <<kind, now, expires, count, exit, raced>>

PrInfo ==
  /\ callback = "print"
  /\ count' = count + 1
  /\ callback' = "rearm"
  /\ UNCHANGED <<kind, now, expires, queued, started, exit, raced>>

\* Seeded fault: the next expiry is counted from the last one, not from now.
ModTimerFromExpiry ==
  /\ kind = "timer_list" /\ callback = "rearm"
  /\ queued' = TRUE /\ expires' = expires + Period
  /\ callback' = "none"
  /\ UNCHANGED <<kind, now, count, started, exit, raced>>

\* mod_timer(&etx_timer, jiffies + msecs_to_jiffies(TIMEOUT))
ModTimer ==
  /\ kind = "timer_list" /\ callback = "rearm"
  /\ queued' = TRUE /\ expires' = now + Period
  /\ callback' = "none"
  /\ UNCHANGED <<kind, now, count, started, exit, raced>>

\* Seeded fault: the expiry is set from the present time, as mod_timer does.
ForwardFromNow ==
  /\ kind = "hrtimer" /\ callback = "rearm"
  /\ expires' = now + Period
  /\ callback' = "restart"
  /\ UNCHANGED <<kind, now, queued, count, started, exit, raced>>

\* hrtimer_forward_now: by as many whole intervals as it takes to be in the future.
HrtimerForwardNow ==
  /\ kind = "hrtimer" /\ callback = "rearm"
  /\ expires' = expires + Period * ((now - expires) \div Period + 1)
  /\ callback' = "restart"
  /\ UNCHANGED <<kind, now, queued, count, started, exit, raced>>

\* HRTIMER_RESTART: the kernel queues the timer again when the callback returns.
Restart ==
  /\ callback = "restart"
  /\ queued' = TRUE
  /\ callback' = "none"
  /\ UNCHANGED <<kind, now, expires, count, started, exit, raced>>

-----------------------------------------------------------------------------
(* module_exit *)

TimerRmmod ==
  /\ exit = "loaded"
  /\ exit' = "stop"
  /\ UNCHANGED <<kind, now, queued, expires, callback, count, started, raced>>

\* The callback may be running and then queues the timer again.
DelTimer ==
  /\ kind = "timer_list" /\ exit = "stop"
  /\ queued' = FALSE
  /\ exit' = "cleanup" /\ raced' = (callback # "none")
  /\ UNCHANGED <<kind, now, expires, callback, count, started>>

\* Seeded fault: the timer is dequeued without waiting for its callback.
TryToCancel ==
  /\ kind = "hrtimer" /\ exit = "stop"
  /\ queued' = FALSE
  /\ exit' = "cleanup"
  /\ UNCHANGED <<kind, now, expires, callback, count, started, raced>>

HrtimerCancel ==
  /\ kind = "hrtimer" /\ exit = "stop" /\ callback = "none"
  /\ queued' = FALSE
  /\ exit' = "cleanup"
  /\ UNCHANGED <<kind, now, expires, callback, count, started, raced>>

\* The rest of etx_driver_exit; the kernel frees the module.
CleanUp ==
  /\ exit = "cleanup"
  /\ exit' = "unloaded"
  /\ UNCHANGED <<kind, now, queued, expires, callback, count, started, raced>>

TimerNext == \/ Tick \/ Expire \/ PrInfo \/ ModTimer \/ HrtimerForwardNow \/ Restart
             \/ TimerRmmod \/ DelTimer \/ HrtimerCancel \/ CleanUp

TimerSpec == TimerInit /\ [][TimerNext]_timerVars

-----------------------------------------------------------------------------
(* Properties *)

\* Behind hrtimer_cancel no callback runs and none will: the module of
\* 20_high_resolution_timer can be freed.  Behind del_timer the same is true of
\* 19_kernel_timer, except if it found the callback at work, which then arms
\* the timer again.
QuietAfterCancel ==
  exit \in {"cleanup", "unloaded"} =>
    \/ callback = "none" /\ ~queued
    \/ kind = "timer_list" /\ raced

\* The expiries of the hrtimer stay on the grid set by hrtimer_start: late
\* callbacks do not make the period drift.
NoDrift == kind = "hrtimer" => expires % Period = 0

\* A late callback is not followed by a burst: there are never more callbacks
\* than periods that have passed.
NoBurst == count * Period <= now

\* However late the callbacks run, the hrtimer neither drifts nor makes up for
\* lost time.
KeepsTime == NoDrift /\ NoBurst

\* Two callbacks of the timer_list begin at least TIMEOUT apart, however late
\* each of them runs.
FullPeriodBetweenCallbacks ==
  [][Expire /\ kind = "timer_list" => now >= started + Period]_timerVars
=============================================================================

------------------------------- MODULE GpioLed -------------------------------
(***************************************************************************)
(* 28_gpio_interrupt, 37_softirq and 38_threaded_irq: gpio_irq_handler     *)
(* drops the edges of the button that bounce and has the LED toggled, by   *)
(* itself, in a softirq (one per CPU may run) or in the interrupt's        *)
(* thread; a write of the device sets the LED.  Nothing locks led_toggle.  *)
(***************************************************************************)
EXTENDS Integers

CONSTANTS LedDrivers,    \* among "gpio_interrupt" "softirq" "threaded_irq"
          Cpus,
          Debounce,      \* 20 in the code
          Wrap,          \* jiffies is an unsigned long: it counts modulo Wrap
          FirstJiffy,    \* jiffies when the module is loaded
          MaxTime        \* bound on the jiffies of a behaviour

ASSUME LedDriversAssumption == LedDrivers \subseteq {"gpio_interrupt", "softirq", "threaded_irq"}
ASSUME CpusAssumption == Cpus # {}
ASSUME TimeAssumption ==
  /\ Debounce \in Nat \ {0} /\ Wrap \in Nat /\ Wrap > Debounce
  /\ FirstJiffy \in 0..Wrap - 1 /\ MaxTime \in Nat

VARIABLES
  ledDriver,
  now,           \* jiffies since the module was loaded
  old_jiffie,    \* jiffies at the last valid edge; 0 before
  led_toggle,
  led,           \* the level of GPIO 21
  raised,        \* the CPUs that are to run the toggling function
  toggling,      \* where it is on each CPU: "idle" "read" "store" "set"
  next,          \* the value it has computed
  accepted,      \* history: the time of the last valid edge, -1 if none
  presses, runs, \* history: valid edges, completed runs of the function
  manual,        \* history: the device has been written
  overlapped     \* history: two runs of the function have overlapped

ledVars == <<ledDriver, now, old_jiffie, led_toggle, led, raised, toggling, next,
             accepted, presses, runs, manual, overlapped>>
irqvars == <<old_jiffie, accepted, presses>>

\* The function may run on every CPU in a softirq, else in one place.
Places == IF ledDriver = "softirq" THEN Cpus ELSE {CHOOSE c \in Cpus : TRUE}

jiffies == (FirstJiffy + now) % Wrap

LedTypeOK ==
  /\ ledDriver \in LedDrivers
  /\ now \in 0..MaxTime /\ old_jiffie \in 0..Wrap - 1
  /\ led_toggle \in {0, 1} /\ led \in {0, 1}
  /\ raised \subseteq Places
  /\ toggling \in [Cpus -> {"idle", "read", "store", "set"}]
  /\ next \in [Cpus -> {0, 1}]
  /\ accepted \in -1..MaxTime
  /\ presses \in Nat /\ runs \in Nat
  /\ manual \in BOOLEAN /\ overlapped \in BOOLEAN

LedInit ==
  /\ ledDriver \in LedDrivers
  /\ now = 0 /\ old_jiffie = 0
  /\ led_toggle = 0 /\ led = 0
  /\ raised = {}
  /\ toggling = [c \in Cpus |-> "idle"] /\ next = [c \in Cpus |-> 0]
  /\ accepted = -1 /\ presses = 0 /\ runs = 0
  /\ manual = FALSE /\ overlapped = FALSE

Tick ==
  /\ now < MaxTime
  /\ now' = now + 1
  /\ UNCHANGED <<ledDriver, led_toggle, led, raised, toggling, next, runs, manual, overlapped>>
  /\ UNCHANGED irqvars

-----------------------------------------------------------------------------
(* gpio_irq_handler: the line's handler never runs twice at once *)

diff == (jiffies - old_jiffie) % Wrap

Edge(c) ==
  /\ c \in Places
  /\ ledDriver = "gpio_interrupt" => raised = {} /\ toggling[c] = "idle"
  /\ UNCHANGED <<ledDriver, now, led_toggle, led, toggling, next, runs, manual, overlapped>>

Bounce(c) ==
  /\ Edge(c) /\ diff < Debounce
  /\ UNCHANGED raised /\ UNCHANGED irqvars

\* Seeded fault: the time of the valid edge is not kept.
PressNotStamped(c) ==
  /\ Edge(c) /\ diff >= Debounce
  /\ raised' = raised \cup {c}
  /\ accepted' = now /\ presses' = presses + 1
  /\ UNCHANGED old_jiffie

\* A valid edge: toggle now, raise_softirq on this CPU, or IRQ_WAKE_THREAD.
Press(c) ==
  /\ Edge(c) /\ diff >= Debounce
  /\ old_jiffie' = jiffies
  /\ raised' = raised \cup {c}
  /\ accepted' = now /\ presses' = presses + 1

-----------------------------------------------------------------------------
(* gpio_interrupt_softirq_handler, gpio_interrupt_thread_fn, and the end of *)
(* gpio_irq_handler                                                         *)

ToggleGoto(c, from, to) ==
  /\ toggling[c] = from
  /\ toggling' = [toggling EXCEPT ![c] = to]
  /\ UNCHANGED <<ledDriver, now, manual>> /\ UNCHANGED irqvars

Enter(c) ==
  /\ c \in raised
  /\ ToggleGoto(c, "idle", "read")
  /\ raised' = raised \ {c}
  /\ UNCHANGED <<led_toggle, led, next, runs, overlapped>>

ReadToggle(c) ==
  /\ ToggleGoto(c, "read", "store")
  /\ next' = [next EXCEPT ![c] = 1 - led_toggle]
  /\ overlapped' = (overlapped \/ \E o \in Cpus \ {c} : toggling[o] \in {"store", "set"})
  /\ UNCHANGED <<led_toggle, led, raised, runs>>

\* Seeded fault: led_toggle keeps its value.
StoreForgotten(c) ==
  /\ ToggleGoto(c, "store", "set")
  /\ UNCHANGED <<led_toggle, led, next, raised, runs, overlapped>>

StoreToggle(c) ==
  /\ ToggleGoto(c, "store", "set")
  /\ led_toggle' = next[c]
  /\ UNCHANGED <<led, next, raised, runs, overlapped>>

\* Seeded fault: the LED is driven with the inverse level.
SetLedInverted(c) ==
  /\ ToggleGoto(c, "set", "idle")
  /\ led' = 1 - next[c]
  /\ runs' = runs + 1
  /\ UNCHANGED <<led_toggle, next, raised, overlapped>>

SetLed(c) ==
  /\ ToggleGoto(c, "set", "idle")
  /\ led' = next[c]
  /\ runs' = runs + 1
  /\ UNCHANGED <<led_toggle, next, raised, overlapped>>

\* etx_write: '0' or '1', in a process on any CPU
EtxWrite ==
  /\ led' \in {0, 1}
  /\ manual' = TRUE
  /\ UNCHANGED <<ledDriver, now, led_toggle, raised, toggling, next, runs, overlapped>>
  /\ UNCHANGED irqvars

LedNext == \/ Tick \/ EtxWrite
           \/ \E c \in Cpus : \/ Bounce(c) \/ Press(c)
                              \/ Enter(c) \/ ReadToggle(c) \/ StoreToggle(c) \/ SetLed(c)

LedSpec == LedInit /\ [][LedNext]_ledVars

-----------------------------------------------------------------------------
(* Properties *)

Idle == \A c \in Cpus : toggling[c] = "idle"

\* Valid edges are Debounce jiffies apart, whatever jiffies wraps to.
QuietPeriod ==
  [][\A c \in Cpus : Press(c) => accepted = -1 \/ now - accepted >= Debounce]_ledVars

\* The kernel runs a line's handler, and its thread, in one place at a time; the
\* handler of a softirq may run on every CPU at once, and nothing stops it.
MayHaveRaced == ledDriver = "softirq" /\ overlapped

\* Unless the device was written, the LED shows led_toggle between two runs, and
\* does so under a softirq too as long as no run began inside another.
LedFollowsToggle == Idle /\ ~manual => led = led_toggle \/ MayHaveRaced

\* Every completed run toggles: no update of led_toggle is lost to another run,
\* but to one that overlaps it (37_softirq/driver.c:57-58 asks for a spinlock,
\* and its handler has none).
EveryRunToggles == Idle => led_toggle = runs % 2 \/ MayHaveRaced
=============================================================================

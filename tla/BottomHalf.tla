----------------------------- MODULE BottomHalf -----------------------------
(***************************************************************************)
(* The interrupt drivers 12_workqueue, 13_linked_list and 15_tasklet: the  *)
(* handler of shared IRQ 11 asks for one deferred function to run, with    *)
(* schedule_work, queue_work or tasklet_schedule, and rmmod takes handler  *)
(* and function down in the order of each driver's exit.  A request that   *)
(* finds one pending is dropped; the function never runs twice at once.    *)
(***************************************************************************)
EXTENDS Naturals, Sequences

CONSTANTS Drivers,    \* the drivers to choose from, among DOMAIN ExitSteps
          MaxIrqs     \* bound on the number of interrupts in a behaviour

VARIABLES
  driver,      \* which driver is loaded
  pending,     \* WORK_STRUCT_PENDING or TASKLET_STATE_SCHED
  running,     \* workqueue_fn or tasklet_fn runs
  queue,       \* what the function is queued on: "open" "draining" "gone"
  phase,       \* "loaded" "exiting" "unloaded"
  todo,        \* the steps of etx_driver_exit still to be made
  irqs, runs,  \* history: interrupts handled, runs begun
  owed         \* history: an accepted request that no run has followed yet

vars == <<driver, pending, running, queue, phase, todo, irqs, runs, owed>>

\* What each driver's exit does to the handler and to the deferred function.
ExitSteps ==
  [workqueue_static  |-> <<"free_irq">>,
   workqueue_dynamic |-> <<"free_irq">>,
   own_workqueue     |-> <<"drain", "destroy_workqueue", "free_irq">>,
   linked_list       |-> <<"drain", "destroy_workqueue", "free_irq">>,
   tasklet_static    |-> <<"tasklet_kill", "free_irq">>,
   tasklet_dynamic   |-> <<"tasklet_kill", "kfree", "free_irq">>]

ASSUME DriversAssumption == Drivers \subseteq DOMAIN ExitSteps
ASSUME MaxIrqsAssumption == MaxIrqs \in Nat

Steps == {"drain", "destroy_workqueue", "tasklet_kill", "kfree", "free_irq"}

TypeOK ==
  /\ driver \in Drivers
  /\ pending \in BOOLEAN /\ running \in BOOLEAN
  /\ owed \in BOOLEAN
  /\ queue \in {"open", "draining", "gone"}
  /\ phase \in {"loaded", "exiting", "unloaded"}
  /\ todo \in Seq(Steps)
  /\ irqs \in 0..MaxIrqs /\ runs \in Nat

Init ==
  /\ driver \in Drivers
  /\ pending = FALSE /\ running = FALSE /\ owed = FALSE
  /\ queue = "open"
  /\ phase = "loaded" /\ todo = ExitSteps[driver]
  /\ irqs = 0 /\ runs = 0

-----------------------------------------------------------------------------
(* irq_handler: requested until free_irq is done.  The line is shared, so   *)
(* another device may raise it at any time.  What happens to a request made *)
(* of a destroyed queue or of a freed tasklet is not modelled.              *)

\* Seeded fault: no request is made while the function is at work.
IrqSkipsBusy ==
  /\ irqs < MaxIrqs
  /\ phase # "unloaded" /\ todo # <<>>
  /\ irqs' = irqs + 1
  /\ IF queue = "open" /\ ~running
     THEN pending' = TRUE /\ owed' = TRUE
     ELSE pending' = pending /\ owed' = (owed \/ queue = "open")
  /\ UNCHANGED <<driver, running, queue, phase, todo, runs>>

IrqHandler ==
  /\ irqs < MaxIrqs
  /\ phase # "unloaded" /\ todo # <<>>
  /\ irqs' = irqs + 1
  /\ IF queue = "open"
     THEN pending' = TRUE /\ owed' = TRUE
     ELSE UNCHANGED <<pending, owed>>
  /\ UNCHANGED <<driver, running, queue, phase, todo, runs>>

-----------------------------------------------------------------------------
(* The kernel's worker thread, or its tasklet softirq *)

\* The request is taken before the function is called: a later one is kept.
Start ==
  /\ pending /\ ~running /\ phase # "unloaded"
  /\ pending' = FALSE /\ running' = TRUE
  /\ owed' = FALSE /\ runs' = runs + 1
  /\ UNCHANGED <<driver, queue, phase, todo, irqs>>

Return ==
  /\ running /\ phase # "unloaded"
  /\ running' = FALSE
  /\ UNCHANGED <<driver, pending, queue, phase, todo, irqs, runs, owed>>

-----------------------------------------------------------------------------
(* etx_driver_exit *)

Rmmod ==
  /\ phase = "loaded"
  /\ phase' = "exiting"
  /\ UNCHANGED <<driver, pending, running, queue, todo, irqs, runs, owed>>

ExitStep(step) ==
  /\ phase = "exiting" /\ todo # <<>> /\ Head(todo) = step
  /\ todo' = Tail(todo)
  /\ UNCHANGED <<driver, pending, running, phase, irqs, runs, owed>>

\* destroy_workqueue first refuses new work ...
Drain == ExitStep("drain") /\ queue' = "draining"

\* ... then waits for the work that is there, and frees the queue.
DestroyWorkqueue ==
  /\ ExitStep("destroy_workqueue") /\ ~pending /\ ~running
  /\ queue' = "gone"

\* tasklet_kill lets a scheduled tasklet run and waits for it; it does not keep
\* a later interrupt from scheduling it again.
TaskletKill ==
  /\ ExitStep("tasklet_kill") /\ ~pending /\ ~running
  /\ UNCHANGED queue

Kfree == ExitStep("kfree") /\ queue' = "gone"

FreeIrq == ExitStep("free_irq") /\ UNCHANGED queue

Unloaded ==
  /\ phase = "exiting" /\ todo = <<>>
  /\ phase' = "unloaded"
  /\ UNCHANGED <<driver, pending, running, queue, todo, irqs, runs, owed>>

Exit == \/ Drain \/ DestroyWorkqueue \/ TaskletKill \/ Kfree \/ FreeIrq \/ Unloaded

Next == IrqHandler \/ Start \/ Return \/ Rmmod \/ Exit

Spec == Init /\ [][Next]_vars

\* The worker and an rmmod under way are scheduled; interrupts need not come.
FairSpec == Spec /\ WF_vars(Start) /\ WF_vars(Return) /\ WF_vars(Exit)

-----------------------------------------------------------------------------
(* Properties *)

\* An interrupt whose request was accepted is pending until a run begins after
\* it: coalescing drops requests, never the last one.
NothingOwedIsLost == owed => pending

\* Every run answers an interrupt of its own.
RunsAreEarned == runs <= irqs

\* Runs and interrupts correspond: coalescing loses none and invents none.
RunsMatchInterrupts == NothingOwedIsLost /\ RunsAreEarned

\* A workqueue is freed only when its function neither runs nor waits to run.
DestroyedIdle ==
  driver \in {"own_workqueue", "linked_list"} /\ queue = "gone" => ~pending /\ ~running

\* After an interrupt the function runs, unless the module is unloaded first.
InterruptServed == owed ~> ~owed \/ phase = "unloaded"
=============================================================================

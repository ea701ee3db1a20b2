-------------------------------- MODULE Signal --------------------------------
(***************************************************************************)
(* 18_signal: an application registers with the driver by ioctl, and each  *)
(* read of the device (cat) sends a signal to the task that registered     *)
(* last.  The driver keeps a bare pointer to that task, without a lock and *)
(* without a reference.                                                    *)
(***************************************************************************)
CONSTANTS Tasks,      \* task_structs that run test_app; the kernel uses one again
          Cats,       \* processes that read the device
          NULL

ASSUME SignalAssumption == NULL \notin Tasks /\ Tasks \cap Cats = {}

VARIABLES
  task,               \* the driver's pointer
  app,                \* each task's test_app: "free" "started" "opened" "waiting" "closing"
  interrupted,        \* SIGINT has come once: done = 1, SA_RESETHAND has taken effect
  check,              \* what sig_event_handler sets
  cat,                \* each etx_read: "idle" "opened" "tested" "sends" "oopsed"
  target,             \* the argument of each send_sig_info
  last,               \* history: the last task to register, while its process lives
  overtaken           \* history: the one to signal has ended since each etx_read's test

signalVars == <<task, app, interrupted, check, cat, target, last, overtaken>>

SignalInit ==
  /\ task = NULL /\ last = NULL
  /\ app = [t \in Tasks |-> "free"]
  /\ interrupted = [t \in Tasks |-> FALSE] /\ check = [t \in Tasks |-> FALSE]
  /\ cat = [c \in Cats |-> "idle"] /\ target = [c \in Cats |-> NULL]
  /\ overtaken = [c \in Cats |-> FALSE]

-----------------------------------------------------------------------------
(* The driver *)

\* Seeded fault: any process that closes the device unregisters the task.
ReleaseAnybody(p) == task' = NULL

\* etx_release in the context of process p.
EtxRelease(p) == task' = IF p = task THEN NULL ELSE task

\* etx_ioctl with REG_CURRENT_TASK
EtxIoctl(p) == task' = p /\ last' = p

-----------------------------------------------------------------------------
(* test_app *)

AppGoes(t, from, to) == app[t] = from /\ app' = [app EXCEPT ![t] = to]

StartApp(t) ==
  /\ AppGoes(t, "free", "started")
  /\ interrupted' = [interrupted EXCEPT ![t] = FALSE]
  /\ check' = [check EXCEPT ![t] = FALSE]
  /\ UNCHANGED <<task, cat, target, last, overtaken>>

OpenDevice(t) ==
  /\ AppGoes(t, "started", "opened")
  /\ UNCHANGED <<task, interrupted, check, cat, target, last, overtaken>>

Register(t) ==
  /\ AppGoes(t, "opened", "waiting")
  /\ EtxIoctl(t)
  /\ UNCHANGED <<interrupted, check, cat, target, overtaken>>

\* while(!done) { while(!done && !check); check = 0; }
Loop(t) ==
  /\ AppGoes(t, "waiting", IF interrupted[t] THEN "closing" ELSE "waiting")
  /\ interrupted[t] \/ check[t]
  /\ check' = [check EXCEPT ![t] = FALSE]
  /\ UNCHANGED <<task, interrupted, cat, target, last, overtaken>>

\* The end of a process, by close and return or by a signal: the kernel closes
\* what is open in the context of the process itself, then its task is free.
Ends(t) ==
  /\ app' = [app EXCEPT ![t] = "free"]
  /\ IF app[t] = "started" THEN task' = task ELSE EtxRelease(t)
  /\ last' = IF last = t THEN NULL ELSE last
  /\ overtaken' = [c \in Cats |-> \/ overtaken[c]
                                  \/ cat[c] = "tested" /\ last = t
                                  \/ cat[c] = "sends" /\ target[c] = t]
  /\ UNCHANGED <<interrupted, check, cat, target>>

CloseDevice(t) == app[t] = "closing" /\ Ends(t)

\* Ctrl+C runs ctrl_c_handler once; the second time it kills.
CtrlC(t) ==
  /\ app[t] # "free" /\ ~interrupted[t]
  /\ interrupted' = [interrupted EXCEPT ![t] = TRUE]
  /\ UNCHANGED <<task, app, check, cat, target, last, overtaken>>

CtrlCAgain(t) == app[t] # "free" /\ interrupted[t] /\ Ends(t)

-----------------------------------------------------------------------------
(* cat: open, etx_read, close *)

CatGoes(c, from, to) == cat[c] = from /\ cat' = [cat EXCEPT ![c] = to]

OpenCat(c) ==
  /\ CatGoes(c, "idle", "opened")
  /\ UNCHANGED <<task, app, interrupted, check, target, last, overtaken>>

\* if(task != NULL); otherwise nothing is sent.  The pointer is read again for
\* each later use: to print the pid, then as the argument.
TestTask(c) ==
  /\ CatGoes(c, "opened", IF task # NULL THEN "tested" ELSE "sent")
  /\ overtaken' = [overtaken EXCEPT ![c] = FALSE]
  /\ UNCHANGED <<task, app, interrupted, check, target, last>>

TakeTask(c) ==
  /\ CatGoes(c, "tested", IF task = NULL THEN "oopsed" ELSE "sends")
  /\ target' = [target EXCEPT ![c] = task]
  /\ UNCHANGED <<task, app, interrupted, check, last, overtaken>>

\* send_sig_info.  A task that has gone refuses the signal, or is memory that no
\* longer holds a task; one that the kernel has used again gets what was not for
\* its process.
SendSignal(c) ==
  LET t == target[c] IN
  /\ cat[c] = "sends"
  /\ \E outcome \in IF app[t] = "free" THEN {"sent", "oopsed"} ELSE {"sent"} :
       cat' = [cat EXCEPT ![c] = outcome]
  /\ check' = [check EXCEPT ![t] = @ \/ app[t] # "free"]
  /\ target' = [target EXCEPT ![c] = NULL]
  /\ UNCHANGED <<task, app, interrupted, last, overtaken>>

CloseCat(c) ==
  /\ CatGoes(c, "sent", "idle")
  /\ EtxRelease(c)
  /\ UNCHANGED <<app, interrupted, check, target, last, overtaken>>

SignalNext ==
  \/ \E t \in Tasks : \/ StartApp(t) \/ OpenDevice(t) \/ Register(t) \/ Loop(t)
                      \/ CloseDevice(t) \/ CtrlC(t) \/ CtrlCAgain(t)
  \/ \E c \in Cats : \/ OpenCat(c) \/ TestTask(c) \/ TakeTask(c)
                     \/ SendSignal(c) \/ CloseCat(c)

SignalSpec == SignalInit /\ [][SignalNext]_signalVars

-----------------------------------------------------------------------------
(* Properties *)

\* Whoever closes, and however an application ends: the driver points to the
\* task that registered last for as long as that lives, although nothing but a
\* release clears the pointer.  A read that finds it sends its signal to a task
\* that has registered, unless that very one ends between the test of the
\* pointer and the signal: nothing but that makes it follow a stale pointer.
SignalsTheLast ==
  /\ task = last
  /\ \A c \in Cats : ~overtaken[c] =>
       /\ cat[c] # "oopsed"
       /\ cat[c] = "sends" => app[target[c]] \in {"waiting", "closing"}
=============================================================================

--------------------------- MODULE ModuleLifecycle ---------------------------
(***************************************************************************)
(* insmod and rmmod of one module of the repository, in any sequence, with *)
(* every failure its init function can meet.  Init takes resources one by  *)
(* one; a failed step jumps to a label, and the code after the label gives *)
(* resources back and returns an error, upon which the kernel frees the    *)
(* module's memory.  What the kernel still has registered then refers to   *)
(* code and data that are gone.  Processes open the module's device files  *)
(* while it is loaded; files opened while init runs are left out.          *)
(***************************************************************************)
EXTENDS DriverTable, Naturals

CONSTANTS Drivers,     \* the rows of Table that are loaded and unloaded
          MayFail      \* those of them whose init may meet any failure

ASSUME DriversAssumption == Drivers \subseteq DOMAIN Table
ASSUME MayFailAssumption == MayFail \subseteq Drivers

VARIABLES
  driver,   \* the module under insmod / rmmod
  phase,    \* "out" | "init" | "unwind" | "live" | "exit"
  todo,     \* the rest of the function that runs: steps, or resources to give back
  held,     \* what the kernel has registered for the module
  open,     \* the device files that some process has open

  \* for the properties only
  given,    \* resources given back since init began
  misuse    \* resources given back, or used, that the module does not have

vars == <<driver, phase, todo, held, open, given, misuse>>

Code == Table[driver]

\* A resource and the one it is created inside; giving back a directory drops
\* what is in it.
Inside    == {<<"cdev", "region">>, <<"device", "class">>, <<"sysfs", "kobj">>,
              <<"procfile", "procdir">>}
Contents(r) == IF r \in {"kobj", "procdir"} THEN {c \in held : <<c, r>> \in Inside} ELSE {}

\* What a process can open, and keep open when its name is gone.
DeviceFiles == {"cdev", "chrdev", "misc"}

\* Functions of the kernel that accept a handle of nothing (kfree(NULL),
\* kobject_put(NULL), class_destroy of an error pointer, ...), but not a handle
\* of what they were given before.
ToleratesAbsence == {"region", "cdev", "class", "device", "kobj", "sysfs", "procdir",
                     "procfile", "kernel_buffer", "dev_buffer", "client"}

\* Objects inside the module's own memory: initialised, never given back.
OwnMemory == {"mutex", "semaphore", "spinlock", "seqlock", "waitqueue", "completion", "work"}

\* What devm_ functions took: the driver core gives it back after the remove
\* function, or after a probe function that failed.
Managed == {"priv", "managed_irq", "hwregs"}

ResourcesOf(d) == {Table[d].init[i].res : i \in 1..Len(Table[d].init)}
Resources      == UNION {ResourcesOf(d) : d \in Drivers}

TypeOK ==
  /\ driver \in Drivers
  /\ phase \in {"out", "init", "unwind", "live", "exit"}
  /\ held \subseteq Resources
  /\ open \subseteq DeviceFiles \cap Resources
  /\ given \subseteq Resources
  /\ misuse \subseteq Resources
  /\ phase \in {"out", "live"} => todo = <<>>

Init ==
  /\ driver \in Drivers
  /\ phase = "out" /\ todo = <<>> /\ held = {} /\ open = {} /\ given = {} /\ misuse = {}

-----------------------------------------------------------------------------
(* module_init *)

Insmod ==
  /\ phase = "out"
  /\ phase' = "init" /\ todo' = Code.init
  /\ given' = {}
  /\ UNCHANGED <<driver, held, open, misuse>>

Step == Head(todo)

\* The step can succeed: its name is not still registered from an earlier
\* load, and what it is created inside exists.
CanTake == /\ Step.res \notin held
           /\ \A p \in ResourcesOf(driver) : <<Step.res, p>> \in Inside => p \in held

StepSucceeds ==
  /\ phase = "init" /\ todo # <<>>
  /\ \/ /\ Step.kind = "take" /\ CanTake
        /\ held' = held \cup {Step.res}
     \/ /\ Step.kind = "give"
        /\ held' = held \ {Step.res}
     \/ /\ Step.kind = "check"
        /\ held' = held
  /\ todo' = Tail(todo)
  /\ UNCHANGED <<driver, phase, open, given, misuse>>

Fails == phase = "init" /\ todo # <<>> /\ (driver \in MayFail \/ ~CanTake)

\* The code notices and jumps to the step's label ...
StepFails ==
  /\ Fails
  /\ Step.fail \notin {"never", "ignored", "dereferenced"}
  /\ phase' = "unwind"
  /\ todo' = IF Step.fail \in DOMAIN Code.unwind THEN Code.unwind[Step.fail] ELSE <<>>
  /\ UNCHANGED <<driver, held, open, given, misuse>>

\* ... or it does not, and goes on without the resource.
FailureIgnored ==
  /\ Fails
  /\ Step.fail \in {"ignored", "dereferenced"}
  /\ todo' = Tail(todo)
  /\ misuse' = misuse \cup (IF Step.fail = "dereferenced" THEN {Step.res} ELSE {})
  /\ UNCHANGED <<driver, phase, held, open, given>>

InitReturns ==
  /\ phase = "init" /\ todo = <<>>
  /\ phase' = "live"
  /\ UNCHANGED <<driver, todo, held, open, given, misuse>>

-----------------------------------------------------------------------------
(* Processes.  The kernel refuses to remove a module while a file is open   *)
(* whose owner it is, and to open one once it is being removed.             *)

PinsItself == driver \notin Unowned

Opens ==
  /\ phase = "live" \/ (phase = "exit" /\ ~PinsItself)
  /\ \E f \in (held \cap DeviceFiles) \ open : open' = open \cup {f}
  /\ UNCHANGED <<driver, phase, todo, held, given, misuse>>

Closes ==
  /\ \E f \in open : open' = open \ {f}
  /\ UNCHANGED <<driver, phase, todo, held, given, misuse>>

-----------------------------------------------------------------------------
(* The code after a label, and module_exit *)

Rmmod ==
  /\ phase = "live"
  /\ PinsItself => open = {}
  /\ phase' = "exit" /\ todo' = Code.exit
  /\ UNCHANGED <<driver, held, open, given, misuse>>

GivingBack == phase \in {"unwind", "exit"}

\* Giving r back is wrong: it is not there and the kernel's function does not check,
\* or it went before; device_destroy looks into the class.
Wrong(r) == \/ r \notin held /\ (r \notin ToleratesAbsence \/ r \in given)
            \/ r = "device" /\ "class" \notin held

GiveBack ==
  /\ GivingBack /\ todo # <<>>
  /\ held' = held \ ({Step} \cup Contents(Step))
  /\ given' = given \cup {Step}
  /\ misuse' = misuse \cup (IF Wrong(Step) THEN {Step} ELSE {})
  /\ todo' = Tail(todo)
  /\ UNCHANGED <<driver, phase, open>>

\* The function returns; the kernel frees the module, the driver core what is
\* Managed.
Gone ==
  /\ GivingBack /\ todo = <<>>
  /\ phase' = "out"
  /\ held' = held \ (OwnMemory \cup Managed)
  /\ UNCHANGED <<driver, todo, open, given, misuse>>

Next == \/ Insmod \/ StepSucceeds \/ StepFails \/ FailureIgnored \/ InitReturns
        \/ Opens \/ Closes \/ Rmmod \/ GiveBack \/ Gone

Spec == Init /\ [][Next]_vars

-----------------------------------------------------------------------------
(* Properties, and the modules that each does not hold of *)

\* Nothing stays registered in the kernel once the module's memory is freed, and no
\* file whose operations were in it stays open, but of the Unowned modules.
NothingLeft == phase = "out" => held = {} /\ (open = {} \/ ~PinsItself)

\* The labels of these drivers free a pin that gpio_request refused, or a second
\* one not asked for yet (27_gpio/driver.c:219, 28_gpio_interrupt/driver.c:251, 264).
FreesUnclaimed == {"27_gpio", "28_gpio_interrupt", "38_threaded_irq"}

\* my_exit destroys the class twice (10_auto_devfile/hello_cdev.c:76-77), and the
\* device of a class whose creation failed unnoticed (:75); 11-13 do the same.
DestroysClassTwice == {"j10_auto_devfile", "j11_kmalloc", "j12_simple_ioctl", "j13_ioctl"}

\* Whether the way out that runs gives back only what the module has.
Careful == driver \notin DestroysClassTwice /\ (phase = "exit" \/ driver \notin FreesUnclaimed)

\* Neither module_exit nor a label gives back what the module does not have, unless
\* the kernel's function checks for that, nor anything twice, nor a device whose
\* class is gone.
OnlyOwned == [][Careful => misuse' = misuse]_vars

\* Modules whose entry point can run before what it uses is there, or after.
Exposed ==
  {"06_driver",              \* cdev before kernel_buffer (driver.c:140, 157)
   "09_dynamic",             \* cdev before init_waitqueue_head (:129, 147)
   "21_dynamic",             \* cdev before init_completion (:120, 138)
   "16_semaphore",           \* cdev before sema_init (:95, 116)
   "27_gpio", "28_gpio_interrupt", "38_threaded_irq", "37_softirq",
                             \* cdev before gpio_request (28: 229, 249); labels free the pin first
   "33_oled", "40_bmp280",   \* cdev before the i2c client (33: 536, 549), client gone first
   "12_own", "13_linked_list", "15_dynamic",
                             \* the irq before what its handler queues to, or after it
   "32_i2c_algo_bit",        \* the adapter after its pins
   "j22_probe"}              \* an open file after remove (my_dev_driver.c:73)

\* An interrupt, a thread, a bus or a file of the module can call into it.  A file can
\* be opened until its name is gone (not in module_exit, if it pins the module), and
\* an open file used until it is closed.
Callable(entry) ==
  \/ entry \in held /\ ~(entry \in DeviceFiles /\ phase = "exit" /\ PinsItself)
  \/ entry \in open

\* While an entry point can be called, what its code uses is there.
EntriesServed ==
  driver \notin Exposed => \A u \in Code.uses : Callable(u[1]) => u[2] \in held
=============================================================================

# TLA+ models of the Linux device driver collection

The repository is a course in Linux device drivers: about eighty loadable modules in four
collections (`driver_development_practice`, `Johannes4Linux_driver_tutorial`, `lkmpg_book`,
`ldd_3`), each of which shows one mechanism of the kernel. There is no program that ties them
together; what they share is the kernel that calls them. What can go wrong in them is
therefore of two kinds, and the project is laid out after them:

* **one driver while it is loaded**: kernel threads, interrupt handlers, deferred work,
  timers, system calls of several processes and the exit function run at the same time and
  share variables, mostly without a lock, or a device keeps a state that the driver must
  track without ever reading it back;
* **every driver while it is loaded and unloaded**: the init function takes a dozen
  resources, may fail at each of them, and gives them back by falling through `goto` labels;
  the exit function gives them back in an order in which an interrupt or a file operation can
  still need one.

Paths below are relative to `src/driver_development_practice/` unless they start with
`lkmpg_book/`, `Johannes4Linux_driver_tutorial/` or `ldd_3/`.

## 1. Inventory

| part | state it keeps | operations | who interacts | hard behaviour |
|---|---|---|---|---|
| 16_mutex, 17_spinlock (static, dynamic), 17_spinlock_read_write, 24_seqlock, 23_atomic_variable | a global counter, the lock, the seqlock's sequence number | two thread functions, init, exit | two kernel threads, rmmod | interleaving of load and store, a value read again for the log, retry loop, joining threads that wait for a lock |
| 09_waitqueue, 21_completion | the flag (0, 1 read, 2 exit), the completion, a counter | wait_function, etx_read, exit | one kernel thread, many readers, rmmod | missed wake-ups, an unlocked flag both sides write |
| 19_kernel_timer, 20_high_resolution_timer | the timer and its expiry | callback, init, exit | timer softirq or interrupt, rmmod | late callbacks, drift, bursts, a callback that re-arms while it is cancelled |
| 11_interrupt, 12_workqueue (static, dynamic, own), 15_tasklet (static, dynamic) | the pending bit of the work or tasklet | irq_handler, workqueue_fn / tasklet_fn, exit | shared IRQ, worker, rmmod | coalescing, order of tear-down |
| 13_linked_list | etx_value, the list | etx_write, irq_handler, workqueue_fn, exit | writers, shared IRQ, worker, rmmod | value read late, list changed while it is freed |
| 34_poll, 35_select, 36_epoll | etx_value, can_read, can_write | sysfs_show, sysfs_store, etx_poll, etx_read, etx_write; the applications' loops | users of the sysfs file, pollers | flags tested and cleared without a lock, lost notifications |
| 28_gpio_interrupt, 37_softirq, 38_threaded_irq | led_toggle, old_jiffie, the LED | gpio_irq_handler, softirq handler, thread function, etx_write | the button's interrupt, CPUs | debounce over a counter that wraps, toggles from several CPUs |
| lkmpg_book/06_chardev_ioctl (chardev2) | message, already_open, file position | device_ioctl (set, get, nth), device_read, device_write | several processes | a flag that guards only some of the entry points |
| 18_signal and its test_app | a bare pointer to the registered task; the application's two flags | ioctl, read, release; the signal handlers | applications, readers, the end of a process | a pointer without a reference or a lock, tasks that are used again |
| 06, 06 example2, 08_procfs, 08_procfs_simple, 16_semaphore, 25 misc_watchdog, lkmpg 02, procfs1, procfs2, procfs3, Johannes 08, 11 (and 21) | a buffer and its length, the position of each file, a flag or a lock | open, read, write, llseek, release | processes with the file open | exclusive open, early returns under a lock, ends of files, a toggle that all readers share |
| 29_i2c_client, 33_i2c_ssd1306_complete, 39_spi | line and column of the driver's cursor; the controller's window, pointer and cells | print, new line, clear, light, scroll, logo, probe, write, remove, init, exit | writers, the display controller, which outlives the drivers | two copies of one position that must agree |
| 40_bmp280_i2c | the configuration, in the driver and in the sensor's registers | probe, remove, etx_read, with all their transfers | the sensor, readers, a bus that fails | failures after the first of several transfers, retries, a read of two transfers without a lock |
| 31_real_i2c_bus_driver | the levels of two wires, the slave's shift register | etx_i2c_xfer with its START, bits, acknowledge, STOP | the slave | edges in the right order, collisions on the wire, refused bytes |
| all of the above and every other module | what the kernel has registered for it | module_init / probe, the labels, module_exit / remove | insmod, rmmod, entry points | partial failure, order, leaks, double release |
| 07_ioctl, 10_sysfs, 22_export_symbol, lkmpg ioctl.c and hello-sysfs, Johannes 12, 13 | an integer | ioctl, show, store, read | processes | copied whole, or incremented without a lock (22): only loaded and unloaded here |
| 14_kernel_thread, 26_usb, 27_gpio, 30, 32, 41 | a thread, a client, a pin, an adapter | thread function, probe, remove, single reads and writes | the kernel | they log, or act on one value: only loaded and unloaded here |
| hello-world, parameter and log-level modules, test programs, overlays | nothing | log | nobody | none: not modelled |

What makes each part correct, in one line each: the counting threads log 1, 2, 3, ...; the
waiting thread is woken for every read and never for nothing; the timer keeps its period;
an interrupt is always followed by a run of its bottom half; the list holds the writes in
order and the last of them; a stored value gets read; edges of a button that bounce toggle
nothing; an ioctl returns one message and not two mixed; whoever reads a
file to its end has the text once; one open or one call excludes the others and lets the next
in; a signal goes to the last task to register; the display shows the text; the bus reports as
sent what was received; a probed sensor measures as it was asked to; and a module leaves
nothing behind.

## 2. Modules

| module | models | checked by run |
|---|---|---|
| `CountingThreads`, `Ticker`, `CountingThreads_proofs` | 16, 17, 23, 24; the abstract log; proofs, also of `GpioLed` | counting_threads |
| `HandOff`, `HandOff_proofs` | 09, 21; proofs, also of `Signal` and `Poll` | hand_off |
| `Signal` | 18 and its application | hand_off |
| `PeriodicTimer` | 19, 20 | periodic_timer |
| `BottomHalf`, `BottomHalf_proofs` | 12, 13, 15; proofs, also of `PeriodicTimer` | bottom_half |
| `LinkedList`, `MCLinkedList`, `LinkedList_proofs` | 13; implements `BottomHalf` | linked_list |
| `Poll`, `MCPoll` | 34, 35, 36 and their applications | poll |
| `GpioLed` | 28, 37, 38 | gpio_led |
| `ExclusiveDevice`, `ExclusiveDevice_proofs` | lkmpg chardev2; proofs, also of `TextDevice` | exclusive_device |
| `TextDevice` | twelve drivers that keep a text: 06, 06 example2, 08 (two), 16_semaphore, 25 misc_watchdog, lkmpg chardev, procfs1, procfs2, procfs3, Johannes 08 (and 21), 11 | exclusive_device |
| `Ssd1306`, `MCSsd1306`, `Ssd1306_proofs` | 29, 33, 39; proofs | ssd1306, ssd1306_leftover |
| `I2cBus`, `I2cBus_proofs` | 31; proofs, also of `Bmp280` | i2c_bus |
| `Bmp280` | 40 | i2c_bus |
| `DriverTable`, `ModuleLifecycle`, `MCModuleLifecycle`, `ModuleLifecycle_proofs` | init, labels and exit of 79 modules; proofs | lifecycle |

`MCHandOff`, `MCExclusiveDevice` and `MCI2cBus` put two modules about the same kind of device
into one run: a variable `chosen` says which of the two a behaviour is about, the other's
variables never change. Nothing connects them. Modules that are proved about in one module of proofs
have different names for everything (`PollInit`, `textVars`, ...).

Conventions. One action is what the code does between two points at which somebody else
can see or change what it shares; a function that shares nothing is one action. Modules
that stand for several drivers have a variable `driver` (or `kind`, `primitive`) that is
chosen in `Init` and never changes: every behaviour is one driver's. Variables marked
`history` in a module record the past for a property and guard nothing; only the bounds of
a run read some of them. A definition marked `Seeded fault` is not part of any
specification: it is the definition next to it with a plausible mistake, kept to show that
the property it belongs to notices.

### CountingThreads and Ticker

`pc[t]` is where thread t is in its loop, `owner` and `readers` who holds the lock, `seq`
the seqlock's counter. The increment is a `Load` and a `Store`, the log line a third access
(`pr_info` reads the variable again), so that a missing lock would show. In 23 the increment is
one step (`AtomicInc`), and the line (`LogCount`) reads what others may have incremented since;
the bit it also flips is only logged. `KthreadRun`, `Rmmod`, `KthreadStop` and `KthreadJoin` are
init and exit: exit sets the flag of one thread, waits for it, then does the next. The threads
see the flag only at the head of the loop. `Ticker` is the abstract specification of the log:
a line follows each count, and shows no less than its own number and no more than was counted;
`ahead` says how many counts may be without their line. With a lock that is one, so that the
n-th line shows exactly n; without one it is the number of threads. It speaks for the drivers
in which every thread counts and logs (16, 17, 23); the others print only in the reader,
and what `CleanRead` says of it takes its place. The seqlock is correct only while no reader
sleeps through a whole round of the 32-bit counter: `NoWrap` bounds that, as the code's msleep
of a second a write does.

### HandOff

`wait_event_interruptible` queues the thread before it tests the flag, so test and sleep are
one step against a wake-up. The rest is not atomic: `etx_read` sets the flag in one step and
wakes, or tests `completion_done` and completes, in later ones; the thread takes the event,
tests the flag, counts and resets it in four. `unserved` is a read whose flag the thread has not
yet counted (09) or that has not yet woken it (21); a flag set between the count and the reset of
09 (`Overwritten`) is not in it, for that read is lost. The exit function can run only when no file
is open (the kernel refuses rmmod otherwise).

### Signal

`app[t]` follows one run of test_app in the task t, which the kernel uses again for another
run; `interrupted` and `check` are what its handlers set. `etx_read` is four steps: it tests the
pointer, reads it again, sends, and the file is closed. `Ends` is the end of a process, by
return or by a signal: the kernel closes its files in the context of the process itself, so that
`EtxRelease` finds its own task. A pointer to a task that is free may be refused or be any
memory: the read then goes either on or to "oopsed".

### PeriodicTimer

`Expire` takes a due timer off the queue at any later time: a late callback is the rule. The
callback logs, computes the next expiry (`ModTimer` from the present jiffy,
`HrtimerForwardNow` by whole periods) and, for the hrtimer, is queued again when it returns.
`DelTimer` does not wait for a running callback; `HrtimerCancel` does.

### BottomHalf and LinkedList

`BottomHalf` keeps the pending bit, whether the function runs, the state of the queue and the
remaining steps of exit; `ExitSteps` is each driver's order. `LinkedList` is the same
driver skeleton with its data: writers that store a number and raise the interrupt, the
function that allocates a node, looks for the tail and links, and the exit function that
walks and frees while the function may still run. Its refinement mapping (`Deferral`) makes
it an implementation of `BottomHalf` for the driver "linked_list". `list_del` and
`list_add_tail` are one step each, but for the case the code can really meet: the tail the
function has read is freed before it links behind it, and the node is lost. What
`queue_work` does on a freed queue, or a schedule of a freed tasklet, is undefined and the
model does not go on from it: the request is dropped.

### Poll

The flags are tested and cleared in separate steps (`TestIn`, `ClearIn`, `TestOut`,
`ClearOut`) and a store writes the value, sets the flag and wakes in three. `triggered` is
what keeps a wake-up that comes between the test and the sleep; for epoll it is the ready
list. `EPOLL_CTL_ADD` asks `etx_poll` once, `epoll_wait` asks it again for a device on the ready
list and puts it back there when it reports it (level triggered). `select` asks `etx_poll`
exactly as `poll` does, so that one application stands for both. A timed-out epoll_wait looks
at nothing.

### GpioLed

`now` counts jiffies since the module was loaded, `jiffies` is the kernel's counter, which
wraps. `Bounce` and `Press` are the handler; `Enter`, `ReadToggle`, `StoreToggle` and
`SetLed` the function that toggles, in place, in a softirq on the CPU that took the
interrupt, or in the thread. A softirq may run on two CPUs, the others in one place.

### ExclusiveDevice

`device_read` and `device_write` go byte by byte, with `already_open` taken by the three
ioctls alone. `message` has one byte behind `BUF_LEN`, the one a missing terminator would run
into. The driver has no llseek, so that only `read` moves a position; the index of
`IOCTL_GET_NTH_BYTE` is not modelled.

### TextDevice

A row of `Drivers` says of each driver who may have the file open, which lock a call takes,
where the text ends and what a write does; the actions are the same for all: open in one step,
or in two for the watchdog, a call that waits for its lock, copies byte by byte, and returns.
A process waiting for the lock may be interrupted by a signal. `taken` is what a process's reads
gave it since the beginning of the file, `call[u].snap` the text when its call began; `disturbed`,
`torn` and `slipped` record what the properties except. Reads ask for any size, and three drivers
mind: a read of procfs3 that asks for less than the text shortens it for everybody (`Cuts`), one of
06 moves the file by less than it gave, so that the next gives the text again (`WillRepeat`), and
one of example2 may run on behind a buffer filled to its last byte (`ReadsBeyond`: what it then
gives is any byte, and the model goes on from there as if the kernel had allowed it). What a call
returns is not kept: 08_procfs returns the size asked for and 06 copies its text even where it
returns 0. The message of the opens of chardev
carries the number of opens, here modulo 2; procfs2 writes a buffer
of its own that no read returns (`Buffer1k`), but its writes move the file's position; the memory `kmalloc` gives is any one byte repeated.

### Ssd1306

The display has its real size: 8 pages of 128 columns. The controller's state is the window
set by the last address commands and the pointer that runs over it; a handler is a
sequence of calls (`calls`), and each call is one action on both sides. The handlers run one at
a time (their callers are single; concurrent writers of 33 mix their characters, and no property
would hold), while the controller's scroll steps by itself. In 33 a new line keeps `CursorPos`,
so that a line that follows one may wrap early: `PointerFollowsCursor` says `<=` for that driver.
29 and 33 drive the same display: `ChangeDriver` unloads one and loads the other, and the
controller keeps its window, its pointer and its cells.

### I2cBus

The two wires, the pin that drives SDA and the slave. Every call of a pin helper is a step;
the slave takes a change of SDA while SCL is high for a START or a STOP, samples on the
rising clock and drives its acknowledgement between the eighth and the ninth falling one.
The code drives the pins high as well as low; when the slave pulls a pin that drives high,
the level is either (`Level`). Reading and SMBus are stubs in the code.

### Bmp280

A thread's `bmpTodo` is the accesses its function has yet to make: `Probe`, `Remove` and the
read of a measure are sequences of them. A register is read by `SendAddress` and a receive, in
which other threads may come between (`bmpMixed`) and either of which may fail; a failed write
may have reached the sensor in part. The values are abstract: `from` names the registers that
were read, and bits read at another place than ctrl_meas are any of `Garbage`. The sensor's
registers outlive the module. The device file exists before the probe, and after one that failed.

### ModuleLifecycle and DriverTable

Each row of `DriverTable` is one module: the sequence of what init takes (with the label a
failure jumps to, or `Unchecked`, `Deref` when the code does not look, or uses the error
pointer), what is given back behind each label, what exit gives back, and which entry point
uses which resource. `ModuleLifecycle` executes a row: insmod, failure at any step, unwinding,
rmmod, and again. While it is loaded, processes open its device files and close them (`Opens`,
`Closes`); an open file keeps the module loaded, unless neither the file operations nor what
registers them name an owner (`Unowned`): such a file may be opened until its name is gone and be
used after the module is. `given` is what the function at work has given back. Giving back is wrong
(`Wrong`) if the thing is not there and the kernel's function does not accept a handle of nothing
(`ToleratesAbsence`), if it was given back before, whatever the function accepts, or if it is a
device whose class is not there, into which `device_destroy` looks. Files opened while init still
runs are left out.

## 3. Runs, bounds and what they show

Every run but the last is expected to pass.

| run | instance | distinct states | deadlock |
|---|---|---|---|
| counting_threads | 5 drivers, 2 threads, words of 4 values, sequence numbers of 6 | 38 745 | off: the module may be gone |
| lifecycle | the 76 rows of `Sound`, failures in those of `Unwinding` | 1 859 | checked |
| hand_off | 2 readers, 4 reads, wait queue and completion; 2 tasks and 2 readers of 18 | 110 636 | off: module gone |
| periodic_timer | period 3, 10 instants | 2 392 | off: time ends |
| bottom_half | 6 drivers, 4 interrupts | 1 035 | off: module gone |
| linked_list | 2 writers, 3 writes, 3 interrupts of the other device | 17 139 | off: module gone |
| poll | 2 pollers, each poll or epoll, 2 users, 2 stores, 1 show | 521 839 | checked |
| gpio_led | 3 drivers, 2 CPUs, debounce 3, 10 instants over a wrap at 10 | 30 591 | checked |
| exclusive_device | 2 processes; every operation of chardev2 on a 2-byte buffer; 12 text drivers with buffers of 2 bytes, one writer, reads of 1 and 2, texts of 1, 2 and 3 | 3 707 256 | checked |
| ssd1306 | 3 drivers, 6 texts, 3 writes, 2 scroll steps | 15 103 | checked |
| i2c_bus | slave 60, 2 transfers of one or two messages, some with the byte 120; a sensor, 1 reader, 2 tries for the chip id | 129 730 | off: transfers run out |
| ssd1306_leftover | 33, two writes of two lines | violated | checked |

Why the bounds are enough:

* **counting_threads.** The drivers have exactly two threads. A word of four values and a
  sequence of six both wrap several times, so the properties hold over the wrap; six is the
  smallest even sequence in which a reader can be overtaken twice without a whole turn. The word
  has more values than there are threads (`WordAssumption`), as any unsigned int has: otherwise
  23 could be a whole round ahead of its log.
* **lifecycle.** Each row is complete; a second insmod after rmmod is included, so that
  something left behind meets the same name again. Every device file may be open at any time.
* **hand_off.** Two reads at once and one more behind each: a read that comes before, during
  and after every step of the thread, and one that races with the exit function. Two
  tasks of 18 suffice for one that takes over the registration of the other and for one that is
  used again; two readers for one that closes while the other is between test and signal.
* **periodic_timer.** Ten instants are three periods and one instant: a callback can be late by
  less than a period, by exactly one, and by two.
* **bottom_half, linked_list.** Three interrupts suffice for one that starts a run, one that
  is coalesced and one that comes during the run or the exit; the lists have every length from
  0 to 6.
* **poll.** With two stores a second one can fall between any two steps of the first, and with
  two pollers each can take the other's event. The one show keeps `can_write` in play.
* **gpio_led.** The counter starts at 6 and wraps at 10, so that edges fall on both sides of
  the wrap and more than one debounce period apart; the second CPU is what makes two softirqs meet.
* **exclusive_device.** A text that fits and one that is cut at `BUF_LEN`, so that the
  terminator is both inside the buffer and in the byte behind it. Of the text drivers, a text of
  one byte leaves room in the buffer, one of two fills it and one of three is cut off (06 and
  08_procfs do not cut, and are given none); reads of one byte need two calls for a full buffer, or
  ask for less than the driver has. One process writes, and both read: one write is enough to
  overlap a read, and under the locks two writes do not overlap. A reader that was given the text
  twice reads once more at most.
* **ssd1306.** The display keeps its real size of 8 pages of 128 columns; the texts are a line
  with and without a new line, one longer than the display is wide, full lines behind a new
  line, as many lines as the display has, and more characters than it has room for.
* **i2c_bus.** Messages to the slave and to an address nobody has, empty, of bytes that end in
  0 and in 1, alone, in pairs and in two messages, and the byte 120, which is slave 60's own address
  on the wire, first, behind an even byte, behind an odd one and as the address of a second message;
  the slave may refuse each byte; two transfers show that the first leaves the wires as the second
  needs them. Two tries for the chip
  id are a retry that succeeds and one that runs out; the code makes five. The two `Garbage`
  values differ in every field from each other or from what the probe asks for.

What they show, property by property, in the order of the modules:

* `CountingThreads`: `TickerSpec`, the log of the drivers whose threads all count; `CleanRead`,
  the reader logs what was committed when its attempt began, and retries otherwise;
  `QuietAfterJoin` and `RmmodReturns`, exit waits for both threads and always gets them.
* `ModuleLifecycle`: `NothingLeft` (every way out of insmod or rmmod leaves the kernel as it
  was, and no file open but of the `Unowned`), `EntriesServed` (an interrupt, a thread, a bus or a
  file can call into the module only while what that code uses is there, but for the rows named in
  `Exposed`), `OnlyOwned` (neither exit nor a label gives back what the module does not have, or
  twice, or a device without its class, but for the labels of `FreesUnclaimed` and the exit
  functions of `DestroysClassTwice`).
* `HandOff`: `NoMissedWakeup`; `ReadsAreCounted`: in 21 a read that comes while the thread is busy
  wakes it again (`NoLostEvent`), in 09 it is counted, alone or with others, unless its flag is the
  one the thread is about to reset (`NoLostRead`, `Overwritten`), and in both none is counted
  twice (`NoPhantomRead`); `EventServed`, each read wakes the
  thread; `ExitNoticed`, the exit flag ends the thread of either driver if it is still there
  when the thread comes back for it. The completion driver may count once more when its exit
  completes after the thread has reset the flag, and both threads may overwrite the exit flag;
  the properties except both because the code does both.
* `Signal`: `SignalsTheLast`, the bare pointer names the last task to register for as long as
  that lives, and a read that found it signals a registered task unless that very task ends
  between the test and the signal.
* `PeriodicTimer`: `KeepsTime` (the hrtimer neither drifts nor bursts),
  `FullPeriodBetweenCallbacks`, and `QuietAfterCancel` for both timers, but for a `del_timer`
  that found a callback at work.
* `BottomHalf`: `RunsMatchInterrupts` (none lost, none invented), `InterruptServed`.
* `LinkedList`: `ListIsFaithful` (in the order of the writes, up to the last), `NoNodeLeaks`,
  `WriteArrives`, and `BottomHalfSpec`, the refinement.
* `Poll`: `PollersAreWoken`, no poller sleeps while a flag is set unless a handler is about to wake
  it; `StoreIsRead`, every store is eventually read, or was announced to `EPOLL_CTL_ADD`.
* `GpioLed`: `LedFollowsToggle` and `EveryRunToggles` (for the softirq until two of its runs
  overlap), `QuietPeriod` (valid edges are a debounce period apart).
* `ExclusiveDevice`: `StopsInside`, `GetReturnsLastSet`.
* `TextDevice`: `ReadsAreWhole`, a read returns bytes of one moment, always under the mutex and
  the exclusive open, elsewhere unless a write overlapped (a read that runs on behind the full
  buffer of example2 is no such read); `CatGetsText`, whoever reads until a read returns 0 has the
  text once, whatever sizes it asked for, unless it was written or, in procfs3, cut meanwhile, or a
  read of its own asked 06 for less than the text or ran on in example2; `ExclusionIsKept`, one open of chardev and (but for opens
  that slip between test and set) of the watchdog at a time, and flag and lock are free when
  nobody is in.
* `Ssd1306`: `PointerFollowsCursor`, `GlyphsAreWhole`, `MessageIsLegible`, `LogoIsShown`.
* `I2cBus`: `ReportedAsReceived`, the slave has a prefix of what was sent and success means all of it,
  unless a byte is `Mistakable`: the slave's own address on the wire, behind an odd byte (section 5);
  `BusIsReleased`, the slave has seen a STOP and SDA is up when the driver returns. It says nothing
  of SCL, which Stop leaves low (section 5).
* `Bmp280`: `ProbedSensorMeasures`, a probe that succeeded leaves the sensor measuring with what
  was asked for, and the driver's copy right, whatever failed or was left before;
  `MeasuresAreGenuine`, no failed transfer passes for a measure; `SensorCoreReturns`.

Fairness. What the scheduler and the kernel promise, and no more:

* `CountingThreads`: weak fairness of each thread and of the exit function under way; strong
  fairness of taking the lock, because mutexes, ticket spinlocks and the rwlock queue
  their waiters. Nobody has to call rmmod.
* `HandOff`: weak fairness of the thread, of a read that has begun and of an exit that has
  begun. No read and no rmmod has to come.
* `BottomHalf`, `LinkedList`: weak fairness of the worker (or the tasklet), of the exit
  function and of a write that has stored its number. No interrupt has to come.
* `Poll`: weak fairness of pollers and of users inside a handler. `Timeout` has none: the
  applications call poll again after five seconds, but a notification that only a timeout
  repairs is a lost one.
* `Bmp280`: weak fairness of the thread that runs insmod and rmmod, inside the probe and the
  remove function. Transfers may fail for ever; the retries are bounded.
* The other modules check safety only and have no fairness.

## 4. Proofs

Each theorem holds for all values of the constants that satisfy the module's named
assumptions: a positive number of threads and of CPUs, a positive word, an even positive sequence,
finite sets of readers and of users, fewer threads than the word has values, a positive period, a
non-empty buffer, a terminator that is no character, a lock holder "nobody" or "module" that is no
process, a thread of insmod that is no reader, on the bus a slave address of seven bits and
transfers of one or two messages of bytes (every caller in the repository sends one), and for the
displays texts that fit in `rec_buf` of etx_write with the NUL behind them. Each module that is
proved about has one inductive invariant, one lemma that its initial predicate implies it, one lemma
per action or group of actions that a step keeps it, and theorems that draw the properties from it.

* **CountingThreads_proofs.** `MutualExclusion` alone is not inductive: `OwnerInv` says that
  a thread is in its critical section exactly when the lock is its own, `ReadersInv` the same
  for the rwlock's readers, `RoleInv` which thread runs which function. The log needs
  `FreshInv` (a thread about to store holds the current value) and `LogInv` (the counter is
  ahead of the log exactly while a line is due). Without a lock it is ahead by the number of
  threads that owe a line (`OwedInv`, with the cardinality of that set), which stays below the
  word because there are fewer threads (`AheadStep`). The seqlock needs that its number is odd
  during a write (`ParityInv`) and, for an attempt under way, how far it has moved since
  the attempt began and that this is less than a whole turn (`AttemptInv`); the last is where
  the 32-bit counter matters. `ExitInv` says which threads exist and which have returned.
  `ImplementsTicker` maps every step to a count, a line or a stutter of `Ticker`.
  *GpioLed*: until two softirqs overlap, one run at a time has the next value in its hand
  (`OneAtATime`, `InHand`), and led_toggle has the parity of the completed runs, or of one more while
  that run sets the LED (`Parity`, `Shown`). The other two drivers have only one place to run in
  (`OnlySoftirqsRace`). `Stamped` says that old_jiffie is the time of the last valid edge modulo
  the wrap; two readings of a counter that wraps differ by no more than the time that has passed
  (`WrapShortens`), so an edge may be taken for a bounce, and never a bounce for an edge.
* **HandOff_proofs.** Events are accounted for: reads made bound those counted, in the thread's hand,
  left as completions, and claimed by readers on their way (`CountsOnce`, `ClaimsOnce`,
  with cardinalities of the set of busy readers); `Pending` says where the announcement of
  an unserved read is, and `Shape` which counters go with which primitive. `NoReadIsLost` needs that
  the flag is no 2 and the thread has not returned before rmmod (`Loaded`): the flag a read has
  set then stays until the thread counts it.
  *Signal*: the driver's pointer is always the last registration that lives
  (`PointsToLiving`), and a read under way that was not overtaken has tested or taken exactly
  that (`OnItsWay`). *Poll*: `Overlooks` extends the sleeping poller of `PollersAreWoken` by the one
  that has passed the test of can_read and found nothing; such a poller was woken, or a handler
  is about to wake it (`Watched`). What a poller may find is cleared by whoever looks and set
  only in front of a wake-up, which reaches every queued poller. epoll sleeps again behind what it
  reported, which is safe because the device is still on the ready list (`OnReadyList`).
* **BottomHalf_proofs.** `Earned` counts a pending request as a run that was paid for;
  `DestroyedIdle` needs that the drivers with a queue of their own never free a tasklet
  (`NoKfree`). `ExitStepsTyped` checks the table of exit functions. *PeriodicTimer*: `OnGrid` is
  `NoDrift` with its witness; `Ahead` relates clock, expiry and count at every stage of a callback,
  and `Spaced` does the same for timer_list. The arithmetic of `hrtimer_forward_now` is a lemma of
  its own (`WholePeriods`).
* **LinkedList_proofs.** `Ascending` bounds the list by the node in hand and that by
  etx_value; `OnItsWay` says where the last number is (with a writer, in the pending work, in
  the function's hand, on the list); `Accounts` keeps the list no longer than the interrupts and the
  heap, and non-empty where the code takes its tail. `ImplementsBottomHalf` maps each action by a
  lemma: the interrupts (`MapsInterrupt`), the start and return of the function (`MapsWork`), the
  steps of exit that BottomHalf sees and the walk that it does not (`MapsExit`). It needs that a
  drained queue stays empty (`Stages`) and that the interrupts fit BottomHalf's bound, each
  writer inside etx_write being one still to come (`Budget`, with the cardinality of that set).
* **ExclusiveDevice_proofs.** `Terminated` says that an NUL ends `message` at every moment,
  including those inside a write; with it a reader stops inside, for each `BUF_LEN`.
  `GetsTheLastSet` needs where each copy has got to: a writer's first `pos` bytes are its text's
  (`HalfWritten`), a reader's are those of message (`HalfRead`), and message is the last text set,
  cut at `BUF_LEN`, whenever nobody writes (`HoldsLastSet`). Without raw writes the flag keeps writer
  and reader apart (`WriterAlone`). *TextDevice*: `Exclusion` counts holders: the flag is set exactly
  while the file is open (`FlagIsFile`), the lock is taken exactly while a call is served
  (`LockIsCall`). `TextSound` says of a call under way that its bytes are those of the buffer when it
  began (`CopiesSnap`) or that a write fell between and it is marked (`TornIsSeen`); of a process,
  that what it has is the text up to its position (`Progress`) until somebody writes (`Disturbs`) or
  spoils it (`Spoils`), which none can while chardev's file is open. What a read is given is the
  text or, where it cuts it, its beginning (`GivenIs`); a read that runs on behind the buffer marks
  its own process and touches nothing else (`BeyondSound`).
* **I2cBus_proofs.** *I2cBus*: the operations of the driver are counted from the end (`BeginLeft`,
  `FrameLeft`, `StopLeft`), so that a step goes from k left to k - 1. `Wires` says what each of
  these positions makes of the two wires and of the slave's state, `Delivery` which bytes the slave holds
  there (`InMessage`, `InFrame`, `AtEnd`) and what it expects next (`Expects`). With an arbitrary
  transfer, the invariant is not one without `Mistakable`: a first instance of the run had no such
  byte and the property had no such exception, which the proof attempt found. *Bmp280*: the
  thread of insmod is somewhere in a fixed list of accesses (`Schedule`, with `ProbeLeft` and
  `RemoveLeft`), and how many are left says how much of the configuration stands (`Probed`);
  `Addressed` says that a read under way has its own address in the sensor, unless it was mixed.
* **Ssd1306_proofs.** The calls a handler has yet to make are counted from the last one (`Due`), so
  that a call leaves the others their numbers. Of the I2C drivers the text is the end of what is left
  (`TextDue`) and what is before it says how far etx_write or the probe function is (`WriteDue`,
  `ProbeDue`); `Sixes` says that all their columns are multiples of six and that driver and
  controller agree once the text has begun. That is why no letter of theirs meets the edge: 126 is
  the last multiple of six below 128, and `LineIsFull` is true there. `OnScreen` says that what was drawn of the
  message is on the display and behind the controller, and `Ascending` that it is in order. The SPI
  driver makes one fixed list of 70 calls, which `GreetingIs` computes from its definition;
  `Timetable` and `SpiCursor` give the driver's cursor and the controller's for each number of calls
  left, and the end of the list gives the logo. `Lettering` says that each letter on the display is whole where
  no scroll moved it, and for the SPI driver behind the cursor, so that a new one breaks none; before
  the greeting ends they are cleared. `PlacesDiffer` and `AtIs` are the arithmetic of the address
  window. The displays are shown with their real size: only the texts, the drivers, the number of writes and the
  steps of the scroll are parameters.
* **ModuleLifecycle_proofs.** What a reviewer of an init function looks for in its text is stated
  as rules about one row: every way out gives back what was taken before it (`GivesAllBack`); what
  an entry point uses is taken before it and given back after it, and a file that may stay open
  behind its module uses nothing (`UsersGoFirst`); what is given back was taken for certain, once,
  and a device before its class (`GivesOnlyItsOwn`); a row without failures takes no name twice
  (`Orderly`). The theorems say that the rules suffice, for every module that could be written so,
  every failure and any number of loads. `LoadInv` counts the steps of init that are done and
  bounds what is held from both sides: what these steps have got for certain, what they may have
  taken. On a way out the rest of the list still names all that is held; `PinInv` says which files
  are open; `ServedInv` and `OwnedInv` add in which order things go, and that each is named once
  and was not given back before (`FreshInv`). The rules are hypotheses of the theorems. TLC's
  evaluation of them, which needs no behaviour, finds them true of every row of the run with the
  failures it allows there, except that the rows in `Exposed` break `UsersGoFirst` and those in
  `DestroysClassTwice` break `GivesOnlyItsOwn`: the properties except exactly these by name. If
  every row could fail, the rules would be broken also by the rows that `MCModuleLifecycle` loads
  without failures. That is how 18_signal, first loaded without, came to be loaded with failures:
  its labels do give back the cdev.

`ReadsAreCounted`, `KeepsTime`, `RunsMatchInterrupts` and `ListIsFaithful` are conjunctions; each
conjunct has a theorem of its own. `MutualExclusion`, `AcceptsOnlyUndisturbed` and `OneIoctl` are
proved and not checked by a run: `TickerSpec`, `CleanRead` and `GetReturnsLastSet` fail without
them.

Only model-checked: every liveness property (fairness and ENABLED are out of the prover's
reach). That the rows of `DriverTable` obey the rules of `ModuleLifecycle_proofs` is evaluated and not
proved; the run checks what follows from them, the three properties themselves.

## 5. Where the code and the expectations part

The run ssd1306_leftover is the one disagreement with a run of its own: etx_write of 33
clears the display before it sets the cursor to the origin, and the zeros go to the
window the last text left. After a text with a new line the first page keeps its characters.

The others were met while the modules were written. Each is why a property has the condition
it has, or a driver is left out of an instance.

**Threads and hand-offs**
* 21_completion/static_method:285 unloads after `complete` without waiting for the thread; the
  comment at :271-277 says that the thread exits first. 09_waitqueue does not wait either.
* 21_completion/static_method:161 takes `completion_done` for the question whether somebody
  waits; it tells whether a completion is left. A read that comes while the thread is busy
  leaves one, which is what `NoLostEvent` is about.
* In both, the reads, the exit and the thread share the flag without a lock: an exit that sets it
  just before the thread resets it (09_waitqueue/static_method:76) is overwritten, and the thread
  stays. `ExitNoticed` says when this cannot happen. A read that sets it there is lost as well:
  `read_count`, which "counts how many times etx_read() has been called" (:23), misses it, and a read
  that comes before the thread has woken shares its count with the one before.
* 18_signal: the pointer is read again between its test (:166), the log line (:167) and the
  signal (:174), so that a task that closes in between makes the read follow NULL or a task
  that has gone. The dangling pointer :200-201 warns of does not come about by an exit without
  close: the kernel closes the file in the process's own context. A signal that comes between
  test_app's handler and its `check = 0` goes unnoticed.

**Interrupts and timers**
* 15_tasklet: `tasklet_kill` comes before `free_irq` (static_method:290), so that a shared interrupt
  schedules the tasklet again; the dynamic one has already freed it (dynamic_method:331-335).
* 12_workqueue/own and 13_linked_list destroy the workqueue before `free_irq`.
* 13_linked_list: two writes before the work runs give one node (:300-301 shows one for each
  write); the exit function may free the tail the work links behind, and that node leaks
  (:311 says that the memory is freed).
* 19_kernel_timer: `del_timer` (:244) does not wait for a callback, which re-arms the timer; :279
  says that the callback never fires again.
* 20_high_resolution_timer:110 says "NOW + interval"; the code forwards by whole intervals
  from the old expiry, which is what keeps it from drifting.
* 28_gpio_interrupt: `old_jiffie` begins at 0 (:44), although no interrupt was accepted yet
  (:70): shortly after a wrap the first edge counts as a bounce. After a write of the device the
  LED may already have the level of the next toggle, and does not flip (:111).
* 37_softirq: a softirq runs on the CPU that raised it, so two can toggle at once (:57-58) and
  one toggle is lost (:73). `open_softirq` comes after `request_irq` (:239, :256).

**Poll**
* `etx_poll` clears the flags for whoever asks. `EPOLL_CTL_ADD` asks, so that a store before
  36_epoll/epoll_userspace.c:77 is announced to nobody; `StoreIsRead` excepts exactly those
  stores (`swallowed`), and fails without the exception.
* "one notification only" (34_poll/poll_driver.c:247) holds for one poller and not for two: the
  second may pass the test before the first clears the flag. It then reads (:126) what the first
  one's write has already emptied.

**Files**
* 25 misc_watchdog: "Only allow one process to open it at a time" (:26) does not hold when a second
  open comes between the test (:25) and the set (:28); the first release then lets a third in.
* 08_procfs: the `len` that ends a file (:138) belongs to all readers: with two of them one may get
  the text twice and the other none. A read gives 20 bytes whatever was asked for, as those of 06
  and procfs1 give all they have, also behind the end of a smaller buffer of the reader's.
* 06 example2: the 64-byte buffer (driver2.c:17) may be written full (:78-88), and then nothing ends
  the string that `strlen` (:48) looks for the end of: a read with the mutex held gives what lies
  behind the buffer. A kernel that checks the bounds of user copies stops it there; the model does
  not, and excepts such reads (`ReadsBeyond`).
* lkmpg procfs3: a read stores the size it asked for as the length of the text if that is less
  (procfs3.c:35), and the rest of the text is gone for every reader. `CatGetsText` excepts the
  processes that had the file open.
* 06 and 08_procfs copy in as many bytes as are written, whatever their buffers hold
  (06 driver.c:101, 08_procfs/driver.c:164). No write in the run is longer than the buffer: what
  one would overwrite is not in the model.
* lkmpg procfs2 keeps what is written (procfs2.c:50-63) and reads "HelloWorld!" ever after; a
  write moves the position, so that a read behind it in the same file may find the end.
* 06_real_device_driver moves the position by the size asked for and not by what it gave (:88), so
  that a process that asks for less than the text gets it again.

**Displays and the bus**
* 33: a new line keeps `CursorPos`, so a line that follows may wrap before the edge.
* 29: "all pixels ON" (driver_client.c:334) holds while the window is the whole display; after 33's
  text on the same display it is not, because `SSD1306_DisplayInit` sets none.
* 40: the remove function means to "put sensor in sleep mode" (driver.c:1040), but `conf_sensor`
  writes back the mode bits it read before its reset and adds none for that mode, so that a sensor
  that measured still measures. `etx_read` (:153) copies 4 bytes whatever was asked for and returns 0, the end
  of the file. The pressure is compensated with a temperature, `t_fine`, that the driver never
  computes (only bmp280_get_comp_temp_32bit does, :520, which nobody calls), and the probe measures
  right behind the command that starts measuring.
* 39: `etx_spi_write` (spi_ssd1306_driver.c:61-73) returns -1 even if the transfer succeeds.
* 31: after STOP the clock stays low, which :185 calls a bus idle and :122 does not; SDA is
  not released before the acknowledge clock (:191, :201-204); there is no repeated START; a
  failed init gives back pins it never got. The acknowledgement of an odd byte meets an SDA that is
  still driven high, and when the driver lets go the slave may see a START: if the next byte is the
  slave's own address on the wire (0x78 for the display at 0x3C), it acknowledges that byte and does
  not keep it, and the transfer is reported as complete. The same befalls a second message to the same
  slave, whose address arrives as data. `Mistakable` excepts exactly these transfers.

**Load and unload**
* `Keepers`, left out of the run, never give something back: 06 driver2 its buffer, 37 the softirq
  vector, 39 the reference to its SPI master.
* `Exposed` serve an entry point before or after what it uses, and `EntriesServed` excepts them by
  name. The file before its buffer (06 driver.c:140, 157), wait queue (09 dynamic:129, 147),
  completion (21 dynamic:120, 138), semaphore (16:95, 116) or pin (28:229, 249; 27, 37 and 38
  alike, whose labels also free the pin while the file is there); the file before the I2C
  client and after it (33:536, 549; 40:1093, 1115); the interrupt before the queue or tasklet its
  handler schedules, or after it (12 own, 13, 15 dynamic); the adapter after its pins (32). The
  file of Johannes 22 has no owner (my_dev_driver.c:73) and may be used after the remove function
  has freed its pins.
* `Unowned`: an open file of Johannes 05, 07, 08, 21 and 22 and of lkmpg 02 and 06 does not keep the
  module from being removed. Its operations are gone then; `NothingLeft` excepts these files.
* `LeakOnFailure` are loaded without failures: their labels leave a cdev (05-09, 19-22, 34), a
  device (10-13, 15), a workqueue or interrupt (12 own, 13), or give back what was never
  taken: `free_irq` (11-13, 15), `kthread_stop` of an error pointer (14, 16, 17, 23, 24),
  `i2c_del_driver` (29, 33, 40). The run therefore does not show these mistakes, it assumes that
  the steps succeed.
* `FreesUnclaimed` call `gpio_free` for a pin that `gpio_request` refused (27:219, 28:251 and
  264, 38); 32 and 37 do so too. `OnlyOwned` covers the exit functions of these drivers only.
* `DestroysClassTwice`: Johannes 10-13 test `class_create` for NULL, which it never returns, so that
  exit destroys the device of a class that is an error pointer (10_auto_devfile/hello_cdev.c:75);
  and `class_unregister` and `class_destroy` (:76-77) each give the class back. `OnlyOwned` excepts
  these four.
* 26 simple_usb drops a reference to the device it never took.

## 6. Not modelled, and why

* **Device trees, Makefiles, data sheets**: no behaviour. **Test programs**: sequential
  callers; the callers in the models stand for any of them.
* **Logging, hello-world, module parameters**: no state a property could be about.
* **The BMP280 compensation formulas**: the sensor vendor's fixed-point code, copied into the
  repository; bmp280.c, which driver.c repeats and the Makefile does not build.
* **Integers behind an ioctl or a sysfs file** (07, 10, Johannes 12 and 13, lkmpg ioctl.c and
  hello-sysfs): they are copied whole, and a property could only repeat the assignment. The
  counter of 22_export_symbol is one integer of two modules, without a lock or a promise.
* **procfs4's iteration**, 26_usb's probe, the pin of 27_gpio, 30's and 32's
  transfers: they log, or leave the work to the kernel.
* **The kernel itself** (locks, wait queues, workqueues, timers, the device model) is external:
  it is modelled from how the drivers use it.
* **Undefined behaviour after a freed queue, tasklet or file** is where a model stops:
  the request is dropped, and the property says that the driver should not be there. A write that is
  longer than the buffer of 06 or 08_procfs is not made, and what `strlen` reads behind the buffer of
  example2 is any byte.
* **Files opened while an init function still runs**, which may then fail.
* **Vertical scroll, brightness and inversion of the displays**; concurrent writers of 33.
* **Reading over the bus of 31**: stubs in the code.

## 7. Plan

Written first were the modules about concurrency that most drivers share (threads, hand-offs,
timers, bottom halves), then loading and unloading of all drivers, then the modules about a
single device, then the files, the signal, the sensor and the drivers that joined existing
modules (23, 29). Next:

1. procfs4's sequence as actions of `TextDevice`;
2. 26_usb: the references to the device; 22: the shared counter.

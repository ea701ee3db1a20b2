----------------------------- MODULE DriverTable -----------------------------
(***************************************************************************)
(* What each module of the repository does in its module_init and          *)
(* module_exit functions, as data for ModuleLifecycle: the resources init  *)
(* takes in order and the label each failure jumps to, what the code after *)
(* each label gives back (with its fall-through), what exit gives back,    *)
(* and which resource an entry point uses once it is registered.           *)
(*                                                                         *)
(* Left out: cdev_init and the logging; the threads of 09 and 21, which    *)
(* nothing joins (module HandOff); and                                     *)
(* sysfs_remove_file(kernel_kobj, ..), which names a directory the         *)
(* attribute was never in and removes nothing (kobject_put drops it).      *)
(***************************************************************************)
EXTENDS Sequences, TLC

(* Steps of an init function. *)
Take(r, label)  == [kind |-> "take", res |-> r, fail |-> label]
Unchecked(r)    == [kind |-> "take", res |-> r, fail |-> "ignored"]
Deref(r)        == [kind |-> "take", res |-> r, fail |-> "dereferenced"]
Sure(r)         == [kind |-> "take", res |-> r, fail |-> "never"]
Check(label)    == [kind |-> "check", res |-> "nothing", fail |-> label]
Give(r)         == [kind |-> "give", res |-> r, fail |-> "never"]

Driver(init, unwind, exit, uses) ==
  [init |-> init, unwind |-> unwind, exit |-> exit, uses |-> uses]

-----------------------------------------------------------------------------
(* The character device every driver since 05 starts with, and the code    *)
(* after its labels r_device and r_class in its two variants.              *)

Chardev == << Take("region", "return"), Take("cdev", "r_class"),
              Take("class", "r_class"), Take("device", "r_device") >>

ChardevExit == <<"device", "class", "cdev", "region">>

KeepsCdev == [r_device |-> <<"class", "region">>, r_class |-> <<"region">>]
DropsCdev == [r_device |-> <<"class", "region", "cdev">>,
              r_class  |-> <<"region", "cdev">>]

\* From 10_sysfs on: /sys/kernel/etx_sysfs/etx_value.
Sysfs       == << Unchecked("kobj"), Take("sysfs", "r_sysfs") >>
SysfsUnwind == [r_sysfs |-> <<"kobj">> \o DropsCdev.r_device] @@ DropsCdev

\* From 11_interrupt on: the label irq: calls free_irq.
IrqUnwind   == [irq |-> <<"irq">> \o SysfsUnwind.r_sysfs] @@ SysfsUnwind

TwoThreads     == << Unchecked("thread1"), Unchecked("thread2") >>
TwoThreadsExit == <<"thread1", "thread2">>

-----------------------------------------------------------------------------
(* 03 - 10 *)

MajorDynamic == Driver(<<Take("region", "return")>>, <<>>, <<"region">>, {})
MajorStatic  == Driver(<<Unchecked("region")>>, <<>>, <<"region">>, {})
DeviceFileManual == Driver(<<Take("region", "return")>>, <<>>, <<"region">>, {})

DeviceFileAutomatic ==
  Driver(<< Take("region", "return"), Take("class", "r_class"), Take("device", "r_device") >>,
         [r_device |-> <<"class", "region">>, r_class |-> <<"region">>],
         <<"device", "class", "region">>, {})

FileOperations == Driver(Chardev, KeepsCdev, ChardevExit, {})
RealDriver     == Driver(Chardev \o <<Take("kernel_buffer", "r_device")>>, KeepsCdev,
                         <<"kernel_buffer">> \o ChardevExit,
                         {<<"cdev", "kernel_buffer">>})
RealDriver2 ==
  Driver(<< Take("dev_buffer", "return"), Sure("mutex"), Take("region", "return"),
            Take("cdev", "free_device_nr"), Unchecked("class"), Unchecked("device") >>,
         [free_device_nr |-> <<"region">>], ChardevExit,
         {<<"cdev", "dev_buffer">>, <<"cdev", "mutex">>})
Ioctl          == Driver(Chardev, KeepsCdev, ChardevExit, {})
Procfs         == Driver(Chardev \o << Take("procdir", "r_device"), Unchecked("procfile") >>,
                         KeepsCdev, <<"procdir">> \o ChardevExit, {})
ProcfsSimple   == Driver(<<Take("procfile", "return")>>, <<>>, <<"procfile">>, {})
WaitqueueStatic  == Driver(Chardev, KeepsCdev, ChardevExit, {})
WaitqueueDynamic == Driver(Chardev \o <<Sure("waitqueue")>>, KeepsCdev, ChardevExit,
                           {<<"cdev", "waitqueue">>})
SysfsDriver    == Driver(Chardev \o Sysfs, SysfsUnwind,
                         <<"sysfs", "kobj">> \o ChardevExit, {})

-----------------------------------------------------------------------------
(* 11 - 15: interrupts and deferred work *)

Interrupt == Driver(Chardev \o <<Take("irq", "irq")>>,
                    [irq |-> <<"irq">> \o DropsCdev.r_device] @@ DropsCdev,
                    <<"irq">> \o ChardevExit, {})

SysfsIrq  == Driver(Chardev \o Sysfs \o <<Take("irq", "irq")>>, IrqUnwind,
                    <<"irq", "kobj">> \o ChardevExit, {})
WorkqueueStatic  == SysfsIrq
WorkqueueDynamic ==
  Driver(Chardev \o Sysfs \o << Sure("work"), Take("irq", "irq") >>, IrqUnwind,
         <<"irq", "kobj">> \o ChardevExit, {<<"irq", "work">>})
TaskletStatic    == SysfsIrq      \* tasklet_kill before free_irq: module BottomHalf

OwnWorkqueue ==
  Driver(Chardev \o Sysfs \o << Take("workqueue", "irq"), Take("irq", "irq") >>,
         IrqUnwind, <<"workqueue", "irq", "kobj">> \o ChardevExit,
         {<<"irq", "workqueue">>})

LinkedList ==
  Driver(Chardev \o Sysfs \o << Take("irq", "irq"), Take("workqueue", "irq") >>,
         IrqUnwind, <<"workqueue", "irq", "kobj">> \o ChardevExit,
         {<<"irq", "workqueue">>})

TaskletDynamic ==
  Driver(Chardev \o Sysfs \o << Take("irq", "irq"), Take("tasklet", "irq") >>,
         IrqUnwind, <<"tasklet", "irq", "kobj">> \o ChardevExit,
         {<<"irq", "tasklet">>})

-----------------------------------------------------------------------------
(* 14 - 24: threads, locks, signals, timers.  kthread_create and           *)
(* kthread_run return an error pointer, so "if (thread)" never notices;    *)
(* 14 hands it to wake_up_process.                                         *)

KernelThread == Driver(Chardev \o <<Deref("thread")>>, DropsCdev,
                       <<"thread">> \o ChardevExit, {})
\* Seeded fault: exit stops the first thread twice and the second never.
MutexDriverStopsOneTwice ==
  Driver(Chardev \o <<Sure("mutex")>> \o TwoThreads, DropsCdev,
         <<"thread1", "thread1">> \o ChardevExit,
         {<<"thread1", "mutex">>, <<"thread2", "mutex">>})
MutexDriver  == Driver(Chardev \o <<Sure("mutex")>> \o TwoThreads, DropsCdev,
                       TwoThreadsExit \o ChardevExit,
                       {<<"thread1", "mutex">>, <<"thread2", "mutex">>})
Semaphore ==
  Driver(<< Take("region", "return"), Take("cdev", "unregister_region"),
            Take("class", "delete_cdev"), Take("device", "destroy_class"),
            Sure("semaphore") >>,
         [destroy_class     |-> <<"class", "cdev", "region">>,
          delete_cdev       |-> <<"cdev", "region">>,
          unregister_region |-> <<"region">>],
         ChardevExit, {<<"cdev", "semaphore">>})
SpinlockStatic  == Driver(Chardev \o TwoThreads, DropsCdev, TwoThreadsExit \o ChardevExit, {})
SpinlockDynamic == Driver(<<Sure("spinlock")>> \o TwoThreads, <<>>, TwoThreadsExit,
                          {<<"thread1", "spinlock">>, <<"thread2", "spinlock">>})
RwLock          == Driver(Chardev \o TwoThreads, DropsCdev, TwoThreadsExit \o ChardevExit, {})
Signal          == Driver(Chardev, DropsCdev, ChardevExit, {})
KernelTimer     == Driver(Chardev \o <<Sure("timer")>>, KeepsCdev, <<"timer">> \o ChardevExit, {})
HrTimer         == Driver(Chardev \o <<Sure("timer")>>, KeepsCdev, <<"timer">> \o ChardevExit, {})
CompletionStatic  == Driver(Chardev, KeepsCdev, ChardevExit, {})
CompletionDynamic == Driver(Chardev \o <<Sure("completion")>>, KeepsCdev, ChardevExit,
                            {<<"cdev", "completion">>})
Exporter        == Driver(Chardev, KeepsCdev, ChardevExit, {})
Consumer        == Driver(Chardev, KeepsCdev, ChardevExit, {})
AtomicVariable  == Driver(Chardev \o TwoThreads, DropsCdev, TwoThreadsExit \o ChardevExit, {})

\* Seeded fault: the order of the original tutorial, fixed here
\* (24_seqlock/driver.c:233): the threads run before seqlock_init.
SeqlockThreadsFirst ==
  Driver(Chardev \o TwoThreads \o <<Sure("seqlock")>>, DropsCdev,
         TwoThreadsExit \o ChardevExit,
         {<<"thread1", "seqlock">>, <<"thread2", "seqlock">>})
Seqlock == Driver(Chardev \o <<Sure("seqlock")>> \o TwoThreads, DropsCdev,
                  TwoThreadsExit \o ChardevExit,
                  {<<"thread1", "seqlock">>, <<"thread2", "seqlock">>})

-----------------------------------------------------------------------------
(* 25 - 41 *)

MiscDevice    == Driver(<<Take("misc", "return")>>, <<>>, <<"misc">>, {})
MiscWatchdog  == Driver(<<Take("misc", "return")>>, <<>>, <<"misc">>, {})
UsbDriver     == Driver(<<Take("usb_driver", "return")>>, <<>>, <<"usb_driver">>, {})
UsbDriverSimple == Driver(<<Take("usb_driver", "return")>>, <<>>, <<"usb_driver">>, {})
PlatformDriver  == Driver(<<Take("platform_driver", "return")>>, <<>>, <<"platform_driver">>, {})

\* The GPIO drivers' labels: each names the resource whose step failed.
GpioChardev == << Take("region", "r_unreg"), Take("cdev", "r_del"),
                  Take("class", "r_class"), Take("device", "r_device") >>
GpioLabels  == [r_device |-> <<"device", "class", "cdev", "region">>,
                r_class  |-> <<"class", "cdev", "region">>,
                r_del    |-> <<"cdev", "region">>,
                r_unreg  |-> <<"region">>]

Gpio == Driver(GpioChardev \o << Check("r_device"), Take("gpio_out", "r_gpio") >>,
               [r_gpio |-> <<"gpio_out">> \o GpioLabels.r_device] @@ GpioLabels,
               <<"gpio_out">> \o ChardevExit, {<<"cdev", "gpio_out">>})

GpioIrqUnwind ==
  [r_gpio_in  |-> <<"gpio_in", "gpio_out">> \o GpioLabels.r_device,
   r_gpio_out |-> <<"gpio_out">> \o GpioLabels.r_device] @@ GpioLabels

TwoGpios == << Check("r_device"), Take("gpio_out", "r_gpio_out"),
               Check("r_gpio_in"), Take("gpio_in", "r_gpio_in") >>

\* The pin that etx_read, etx_write and the interrupt handler use.
FileAndIrqUsePin == {<<"cdev", "gpio_out">>, <<"irq", "gpio_out">>}

\* Seeded fault: the failed request_irq returns without freeing the pins.
GpioInterruptLeavesPins ==
  Driver(GpioChardev \o TwoGpios \o <<Take("irq", "r_device")>>, GpioIrqUnwind,
         <<"irq", "gpio_in", "gpio_out">> \o ChardevExit, FileAndIrqUsePin)
GpioInterrupt ==
  Driver(GpioChardev \o TwoGpios \o <<Take("irq", "r_gpio_in")>>, GpioIrqUnwind,
         <<"irq", "gpio_in", "gpio_out">> \o ChardevExit, FileAndIrqUsePin)
Softirq ==
  Driver(GpioChardev \o TwoGpios \o << Take("irq", "r_gpio_in"), Sure("softirq") >>,
         GpioIrqUnwind, <<"irq", "gpio_in", "gpio_out">> \o ChardevExit,
         FileAndIrqUsePin \cup {<<"irq", "softirq">>})
ThreadedIrq ==
  Driver(GpioChardev \o TwoGpios \o <<Take("irq", "r_gpio_in")>>, GpioIrqUnwind,
         <<"irq", "gpio_in", "gpio_out">> \o ChardevExit, FileAndIrqUsePin)

\* i2c_new_client_device returns an error pointer, never NULL; the result of
\* i2c_add_driver is dropped.
I2cClientSteps == << Take("adapter_ref", "return"), Unchecked("client"),
                     Unchecked("i2c_driver"), Give("adapter_ref") >>
I2cClient   == Driver(I2cClientSteps, <<>>, <<"i2c_driver", "client">>,
                      {<<"i2c_driver", "client">>})
I2cBus      == Driver(<<Take("adapter", "return")>>, <<>>, <<"adapter">>, {})
I2cBitBang  == Driver(<<Take("adapter", "return")>>, <<>>, <<"adapter">>, {})
I2cAlgoBit  == Driver(<< Unchecked("scl_sda"), Take("adapter", "return") >>, <<>>,
                      <<"scl_sda", "adapter">>, {<<"adapter", "scl_sda">>})
Oled        == Driver(Chardev \o I2cClientSteps, KeepsCdev,
                      <<"client", "i2c_driver">> \o ChardevExit,
                      {<<"cdev", "client">>, <<"i2c_driver", "client">>})
SpiOled     == Driver(<< Take("master_ref", "return"), Take("spi_device", "return"),
                         Check("setup") >>,
                      [setup |-> <<"spi_device">>], <<"spi_device">>, {})
Bmp280      == Driver(<< Take("region", "return"), Take("cdev", "return"),
                         Unchecked("class"), Unchecked("device") >> \o I2cClientSteps,
                      <<>>, <<"client", "i2c_driver">> \o ChardevExit,
                      {<<"cdev", "client">>, <<"i2c_driver", "client">>})
PollSysfs   == [r_sysfs |-> <<"kobj">> \o KeepsCdev.r_device] @@ KeepsCdev
Poll        == Driver(Chardev \o Sysfs, PollSysfs, <<"kobj">> \o ChardevExit, {})

-----------------------------------------------------------------------------
(* Johannes4Linux_driver_tutorial.  A row named .._probe is the binding of *)
(* a platform device: its init is the probe function, its exit the remove  *)
(* function; what devm_ functions take is Managed by the driver core.      *)

HelloCdev       == Driver(<<Take("chrdev", "return")>>, <<>>, <<"chrdev">>, {})
OpenReleaseCdev == HelloCdev
ReadWriteCdev   == HelloCdev
ManualCdev      == Driver(<< Take("region", "return"), Take("cdev", "free_devnr") >>,
                          [free_devnr |-> <<"region">>], <<"cdev", "region">>, {})

\* class_create and device_create return error pointers, so "if (!my_class)"
\* never notices and the labels delete_class and delete_cdev are never reached;
\* class_unregister and class_destroy each give the class back.
AutoDevfile == Driver(<< Take("region", "return"), Take("cdev", "free_devnr"),
                         Unchecked("class"), Unchecked("device") >>,
                      [free_devnr |-> <<"region">>],
                      <<"device", "class", "class", "cdev", "region">>, {})
Kmalloc     == AutoDevfile
SimpleIoctl == AutoDevfile
HelloIoctl  == AutoDevfile

DtDevDriver    == PlatformDriver
DtReadProperty == PlatformDriver
DevLogging     == PlatformDriver

LedAndButton == << Take("led", "return"), Take("button", "free_led") >>
FreeLed      == [free_led |-> <<"led">>]
DtDevGpios   == Driver(LedAndButton, FreeLed, <<"led", "button">>, {})
DtDevData    == Driver(<<Take("priv", "return")>> \o LedAndButton, FreeLed,
                       <<"led", "button">>, {})
HelloMiscdev == MiscDevice
PlatformMisc == Driver(<<Take("priv", "return")>> \o LedAndButton \o <<Take("misc", "free_button")>>,
                       [free_button |-> <<"button", "led">>] @@ FreeLed,
                       <<"misc", "led", "button">>,
                       {<<"misc", "priv">>, <<"misc", "led">>, <<"misc", "button">>})
DtGpioIrq    == Driver(<<Take("managed_irq", "return")>>, <<>>, <<>>, {})
DtMmio       == Driver(<<Take("hwregs", "return")>>, <<>>, <<>>, {})

-----------------------------------------------------------------------------
(* lkmpg_book and ldd_3 *)

LkmpgChardev == Driver(<< Take("chrdev", "return"), Take("class", "unregister"),
                          Unchecked("device") >>,
                       [unregister |-> <<"chrdev">>], <<"device", "class", "chrdev">>, {})
Chardev2     == LkmpgChardev
ProcFile     == Driver(<<Take("procfile", "return")>>, <<>>, <<"procfile">>, {})
Procfs1      == ProcFile
Procfs2      == ProcFile
Procfs3      == ProcFile
Procfs4      == ProcFile
HelloSysfs   == Driver(<< Take("kobj", "return"), Take("sysfs", "put") >>,
                       [put |-> <<"kobj">>], <<"kobj">>, {})
LkmpgIoctl   == Driver(<< Take("region", "return"), Take("cdev", "unregister") >>,
                       [unregister |-> <<"region">>], <<"cdev", "region">>, {})
Ldd3Dynamic  == MajorDynamic
Ldd3Static   == MajorDynamic

-----------------------------------------------------------------------------
(* The file operations of these set no .owner, and what registers them sets *)
(* none either: an open file does not keep the module from being removed.   *)
(* The other character devices set it in the file operations or the cdev;   *)
(* the kernel waits for the users of /proc and sysfs files.                 *)
Unowned == {"j05_hello_cdev", "j07_open_release", "j08_read_write", "j21_miscdev",
            "j22_probe", "lk02_chardev", "lk06_chardev2"}

Table ==
  ("03_dynamic" :> MajorDynamic)          @@ ("03_static" :> MajorStatic) @@
  ("04_manual" :> DeviceFileManual)       @@ ("04_automatic" :> DeviceFileAutomatic) @@
  ("05_file_operations" :> FileOperations) @@ ("06_driver" :> RealDriver) @@
  ("06_driver2" :> RealDriver2)           @@ ("07_ioctl" :> Ioctl) @@
  ("08_procfs" :> Procfs)                 @@ ("08_procfs_simple" :> ProcfsSimple) @@
  ("09_static" :> WaitqueueStatic)        @@ ("09_dynamic" :> WaitqueueDynamic) @@
  ("10_sysfs" :> SysfsDriver)             @@ ("11_interrupt" :> Interrupt) @@
  ("12_static" :> WorkqueueStatic)        @@ ("12_dynamic" :> WorkqueueDynamic) @@
  ("12_own" :> OwnWorkqueue)              @@ ("13_linked_list" :> LinkedList) @@
  ("14_kernel_thread" :> KernelThread)    @@ ("15_static" :> TaskletStatic) @@
  ("15_dynamic" :> TaskletDynamic)        @@ ("16_mutex" :> MutexDriver) @@
  ("16_semaphore" :> Semaphore)           @@ ("17_static" :> SpinlockStatic) @@
  ("17_dynamic" :> SpinlockDynamic)       @@ ("17_rwlock" :> RwLock) @@
  ("18_signal" :> Signal)                 @@ ("19_timer" :> KernelTimer) @@
  ("20_hrtimer" :> HrTimer)               @@ ("21_static" :> CompletionStatic) @@
  ("21_dynamic" :> CompletionDynamic)     @@ ("22_exporter" :> Exporter) @@
  ("22_consumer" :> Consumer)             @@ ("23_atomic" :> AtomicVariable) @@
  ("24_seqlock" :> Seqlock)               @@ ("25_misc" :> MiscDevice) @@
  ("25_watchdog" :> MiscWatchdog)         @@ ("26_usb" :> UsbDriver) @@
  ("26_simple_usb" :> UsbDriverSimple)    @@ ("27_gpio" :> Gpio) @@
  ("28_gpio_interrupt" :> GpioInterrupt)  @@ ("29_i2c_client" :> I2cClient) @@
  ("30_i2c_bus" :> I2cBus)                @@ ("31_bit_bang" :> I2cBitBang) @@
  ("32_i2c_algo_bit" :> I2cAlgoBit)       @@ ("33_oled" :> Oled) @@
  ("34_poll" :> Poll)                     @@ ("37_softirq" :> Softirq) @@
  ("38_threaded_irq" :> ThreadedIrq)      @@ ("39_spi" :> SpiOled) @@
  ("40_bmp280" :> Bmp280)                 @@ ("41_platform" :> PlatformDriver) @@
  ("j05_hello_cdev" :> HelloCdev)         @@ ("j07_open_release" :> OpenReleaseCdev) @@
  ("j08_read_write" :> ReadWriteCdev)     @@ ("j09_manual_cdev" :> ManualCdev) @@
  ("j10_auto_devfile" :> AutoDevfile)     @@ ("j11_kmalloc" :> Kmalloc) @@
  ("j12_simple_ioctl" :> SimpleIoctl)     @@ ("j13_ioctl" :> HelloIoctl) @@
  ("j16_dt_dev_driver" :> DtDevDriver)    @@ ("j17_dt_read_property" :> DtReadProperty) @@
  ("j18_dev_logging" :> DevLogging)       @@ ("j19_probe" :> DtDevGpios) @@
  ("j20_probe" :> DtDevData)              @@ ("j21_miscdev" :> HelloMiscdev) @@
  ("j22_probe" :> PlatformMisc)           @@ ("j23_probe" :> DtGpioIrq) @@
  ("j24_probe" :> DtMmio)                 @@ ("lk02_chardev" :> LkmpgChardev) @@
  ("lk03_procfs1" :> Procfs1)             @@ ("lk03_procfs2" :> Procfs2) @@
  ("lk03_procfs3" :> Procfs3)             @@ ("lk03_procfs4" :> Procfs4) @@
  ("lk04_hello_sysfs" :> HelloSysfs)      @@ ("lk05_ioctl" :> LkmpgIoctl) @@
  ("lk06_chardev2" :> Chardev2)           @@ ("ldd3_dynamic" :> Ldd3Dynamic) @@
  ("ldd3_static" :> Ldd3Static)
=============================================================================

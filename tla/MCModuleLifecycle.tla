-------------------------- MODULE MCModuleLifecycle --------------------------
(***************************************************************************)
(* The sets of modules of the lifecycle runs.                              *)
(***************************************************************************)
EXTENDS ModuleLifecycle

AllDrivers == DOMAIN Table

\* Modules that keep something even after a clean rmmod: the data buffer, the
\* vector of the softirq, the reference to the SPI controller.
Keepers == {"06_driver2", "37_softirq", "39_spi"}

\* Modules whose labels do not undo a failed init: the cdev is never deleted,
\* the device not destroyed, a class never taken back, an error pointer is
\* taken for a thread, a failed registration goes unnoticed.  They are loaded here without failures.
LeakOnFailure ==
  {"05_file_operations", "06_driver", "07_ioctl", "08_procfs", "09_static", "09_dynamic",
   "10_sysfs", "11_interrupt", "12_static", "12_dynamic", "12_own", "13_linked_list",
   "14_kernel_thread", "15_static", "15_dynamic", "16_mutex", "17_static", "17_dynamic",
   "17_rwlock", "19_timer", "20_hrtimer", "21_static", "21_dynamic", "22_exporter",
   "22_consumer", "23_atomic", "24_seqlock", "29_i2c_client", "32_i2c_algo_bit",
   "33_oled", "34_poll", "40_bmp280"}

Sound == AllDrivers \ Keepers
Unwinding == Sound \ LeakOnFailure
=============================================================================

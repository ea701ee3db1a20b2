--------------------------- MODULE CountingThreads ---------------------------
(***************************************************************************)
(* The kernel threads that share etx_global_variable in 16_mutex,          *)
(* 17_spinlock, 17_spinlock_read_write, 24_seqlock and 23_atomic_variable. *)
(* Under the mutex or the spinlock every thread increments the variable    *)
(* and logs it; so it does in 23, whose increment is atomic and which has  *)
(* no lock.  Under the rwlock and the seqlock the first thread increments  *)
(* it and the other reads and logs it, which the seqlock lets it do        *)
(* without excluding the writer.  insmod creates the threads, rmmod stops  *)
(* and joins them.  An increment that is not atomic is the load and the    *)
(* store the compiler emits for it.                                        *)
(***************************************************************************)
EXTENDS Naturals

CONSTANTS Drivers,  \* among "mutex" "spinlock" "rwlock" "seqlock" "atomic"
          N,        \* number of kernel threads (the drivers have two)
          W,        \* number of values of unsigned long
          S         \* number of values of the sequence counter (2^32): even

ASSUME DriversAssumption  == Drivers \subseteq {"mutex", "spinlock", "rwlock", "seqlock", "atomic"}
ASSUME ThreadsAssumption  == N \in Nat \ {0}
ASSUME WordAssumption     == W \in Nat /\ N < W
ASSUME SequenceAssumption == S \in Nat \ {0} /\ S % 2 = 0

Threads == 1..N
Nobody  == 0                                  \* no thread holds the lock

VARIABLES
  driver,
  pc,                    \* where each thread is in its loop
  owner,                 \* who holds the lock and excludes the others, or Nobody
  readers,               \* etx_rwlock: the threads that hold it for reading
  seq,                   \* etx_seq_lock.seqcount: odd while a write is under way
  etx_global_variable,
  value,                 \* the register in which a thread increments or reads
  seq_no,                \* the seqlock readers' locals
  shouldStop,            \* threads on which kthread_stop() has set its flag
  created,               \* etx_driver_init: threads 1..created exist
  removing,              \* etx_driver_exit has been called
  joined,                \* ... and kthread_stop has returned for 1..joined
  lines, printed,        \* the kernel log of the counting threads: number of
                         \* lines (mod W), last value
  snapshot,              \* history: the value when a reader's attempt began
  overtaken              \* history: writes begun during a reader's attempt

vars == <<driver, pc, owner, readers, seq, etx_global_variable, value, seq_no, shouldStop,
          created, removing, joined, lines, printed, snapshot, overtaken>>

Labels   == {"none", "loop", "lock", "load", "store", "print", "unlock",
             "read", "retry", "show", "runlock", "log", "sleep", "done"}
Critical == {"load", "store", "print", "unlock"}
Word     == 0..(W - 1)

TypeOK ==
  /\ driver \in Drivers
  /\ pc \in [Threads -> Labels]
  /\ owner \in Threads \cup {Nobody} /\ readers \in SUBSET Threads
  /\ seq \in 0..(S - 1) /\ seq_no \in [Threads -> 0..(S - 1)]
  /\ etx_global_variable \in Word
  /\ value \in [Threads -> Word] /\ snapshot \in [Threads -> Word]
  /\ shouldStop \in SUBSET Threads
  /\ created \in 0..N /\ joined \in 0..N /\ removing \in BOOLEAN
  /\ lines \in Word /\ printed \in Word
  /\ overtaken \in [Threads -> Nat]

Init ==
  /\ driver \in Drivers
  /\ pc = [t \in Threads |-> "none"]
  /\ owner = Nobody /\ readers = {} /\ seq = 0   \* initialised before the threads
  /\ etx_global_variable = 0
  /\ value = [t \in Threads |-> 0] /\ seq_no = [t \in Threads |-> 0]
  /\ shouldStop = {}
  /\ created = 0 /\ joined = 0 /\ removing = FALSE
  /\ lines = 0 /\ printed = 0
  /\ snapshot = [t \in Threads |-> 0] /\ overtaken = [t \in Threads |-> 0]

\* Does thread t increment the variable, or only read it?
Counts    == driver \in {"mutex", "spinlock"}
Writes(t) == Counts \/ (driver # "atomic" /\ t = 1)

Module == <<driver, shouldStop, created, removing, joined>>
Lock   == <<owner, readers, seq>>
Data   == <<etx_global_variable, value, seq_no, lines, printed>>
Past   == <<snapshot, overtaken>>

-----------------------------------------------------------------------------
(* etx_driver_init and etx_driver_exit *)

KthreadRun ==
  /\ created < N
  /\ created' = created + 1
  /\ pc' = [pc EXCEPT ![created + 1] = "loop"]
  /\ UNCHANGED <<driver, shouldStop, removing, joined, Lock, Data, Past>>

Rmmod ==
  /\ created = N /\ ~removing
  /\ removing' = TRUE
  /\ UNCHANGED <<driver, pc, shouldStop, created, joined, Lock, Data, Past>>

\* kthread_stop: set the flag of the next thread ...
KthreadStop ==
  /\ removing /\ joined < N
  /\ joined + 1 \notin shouldStop
  /\ shouldStop' = shouldStop \cup {joined + 1}
  /\ UNCHANGED <<driver, pc, created, removing, joined, Lock, Data, Past>>

\* Seeded fault: exit does not wait for the thread to return.
KthreadJoinNoWait ==
  /\ removing /\ joined < N
  /\ joined + 1 \in shouldStop
  /\ joined' = joined + 1
  /\ UNCHANGED <<driver, pc, shouldStop, created, removing, Lock, Data, Past>>

\* ... and wait until its function has returned.
KthreadJoin ==
  /\ removing /\ joined < N
  /\ joined + 1 \in shouldStop
  /\ pc[joined + 1] = "done"
  /\ joined' = joined + 1
  /\ UNCHANGED <<driver, pc, shouldStop, created, removing, Lock, Data, Past>>

-----------------------------------------------------------------------------
(* thread_function1, thread_function2: the loop *)

Goto(t, from, to) == pc[t] = from /\ pc' = [pc EXCEPT ![t] = to]

Loop(t) ==
  /\ Goto(t, "loop", IF t \in shouldStop THEN "done" ELSE "lock")
  /\ UNCHANGED <<Module, Lock, Data, Past>>

Msleep(t) ==
  /\ Goto(t, "sleep", "loop")
  /\ UNCHANGED <<Module, Lock, Data, Past>>

-----------------------------------------------------------------------------
(* ... of a thread that increments *)

Attempting(r) == driver = "seqlock" /\ pc[r] \in {"read", "retry"}

\* Bound: no read attempt is so slow that the sequence counter comes round
\* (2^31 writes, one a second).
NoWrap == \A r \in Threads : Attempting(r) => 2 * (overtaken[r] + 1) < S

Overtake ==
  overtaken' = [r \in Threads |-> IF Attempting(r) THEN overtaken[r] + 1 ELSE overtaken[r]]

NextSeq == IF driver = "seqlock" THEN (seq + 1) % S ELSE seq

\* Seeded fault: the critical section is entered without waiting.
WriteLockNoWait(t) ==
  /\ Writes(t) /\ NoWrap
  /\ Goto(t, "lock", "load")
  /\ owner' = t /\ seq' = NextSeq /\ Overtake
  /\ UNCHANGED <<Module, readers, Data, snapshot>>

\* mutex_lock, spin_lock, write_lock, write_seqlock
WriteLock(t) ==
  /\ Writes(t) /\ NoWrap
  /\ Goto(t, "lock", "load")
  /\ owner = Nobody /\ readers = {}
  /\ owner' = t /\ seq' = NextSeq /\ Overtake
  /\ UNCHANGED <<Module, readers, Data, snapshot>>

Load(t) ==
  /\ Goto(t, "load", "store")
  /\ value' = [value EXCEPT ![t] = etx_global_variable]
  /\ UNCHANGED <<Module, Lock, etx_global_variable, seq_no, lines, printed, Past>>

Store(t) ==
  /\ Goto(t, "store", IF Counts THEN "print" ELSE "unlock")
  /\ etx_global_variable' = (value[t] + 1) % W
  /\ UNCHANGED <<Module, Lock, value, seq_no, lines, printed, Past>>

\* pr_info re-reads the variable
PrInfo(t) ==
  /\ Goto(t, "print", "unlock")
  /\ lines' = (lines + 1) % W
  /\ printed' = etx_global_variable
  /\ UNCHANGED <<Module, Lock, etx_global_variable, value, seq_no, Past>>

\* Seeded fault: an early exit from the loop body keeps the lock.
WriteUnlockForgotten(t) ==
  /\ Goto(t, "unlock", "sleep")
  /\ UNCHANGED <<Module, Lock, Data, Past>>

WriteUnlock(t) ==
  /\ Goto(t, "unlock", "sleep")
  /\ owner' = Nobody /\ seq' = NextSeq
  /\ UNCHANGED <<Module, readers, Data, Past>>

-----------------------------------------------------------------------------
(* ... of a thread that reads *)

Begin(t) ==
  /\ ~Writes(t)
  /\ Goto(t, "lock", "read")
  /\ snapshot' = [snapshot EXCEPT ![t] = etx_global_variable]
  /\ overtaken' = [overtaken EXCEPT ![t] = 0]

ReadLock(t) ==
  /\ driver = "rwlock" /\ Begin(t)
  /\ owner = Nobody /\ readers' = readers \cup {t}
  /\ UNCHANGED <<Module, owner, seq, Data>>

\* read_seqbegin spins while the sequence number is odd.
ReadSeqbegin(t) ==
  /\ driver = "seqlock" /\ Begin(t)
  /\ seq % 2 = 0 /\ seq_no' = [seq_no EXCEPT ![t] = seq]
  /\ UNCHANGED <<Module, Lock, etx_global_variable, value, lines, printed>>

ReadValue(t) ==
  /\ Goto(t, "read", IF driver = "seqlock" THEN "retry" ELSE "show")
  /\ value' = [value EXCEPT ![t] = etx_global_variable]
  /\ UNCHANGED <<Module, Lock, etx_global_variable, seq_no, lines, printed, Past>>

\* Seeded fault: a read is only retried while a write is under way.
SeqretryOnlyOdd(t) ==
  /\ Goto(t, "retry", IF seq % 2 = 1 THEN "lock" ELSE "show")
  /\ UNCHANGED <<Module, Lock, Data, Past>>

ReadSeqretry(t) ==
  /\ Goto(t, "retry", IF seq # seq_no[t] THEN "lock" ELSE "show")
  /\ UNCHANGED <<Module, Lock, Data, Past>>

\* The reader logs what it read; the rwlock's reader still holds the lock.
ShowValue(t) ==
  /\ Goto(t, "show", IF driver = "seqlock" THEN "sleep" ELSE "runlock")
  /\ UNCHANGED <<Module, Lock, Data, Past>>

ReadUnlock(t) ==
  /\ Goto(t, "runlock", "sleep")
  /\ readers' = readers \ {t}
  /\ UNCHANGED <<Module, owner, seq, Data, Past>>

-----------------------------------------------------------------------------
(* ... of 23_atomic_variable; the bit it also flips is only logged *)

AtomicInc(t) ==
  /\ driver = "atomic"
  /\ Goto(t, "lock", "log")
  /\ etx_global_variable' = (etx_global_variable + 1) % W
  /\ UNCHANGED <<Module, Lock, value, seq_no, lines, printed, Past>>

\* The value is read again for the line, when others may have incremented it.
LogCount(t) ==
  /\ Goto(t, "log", "sleep")
  /\ lines' = (lines + 1) % W
  /\ printed' = etx_global_variable
  /\ UNCHANGED <<Module, Lock, etx_global_variable, value, seq_no, Past>>

Writer(t) == WriteLock(t) \/ Load(t) \/ Store(t) \/ PrInfo(t) \/ WriteUnlock(t)
Reader(t) == \/ ReadLock(t) \/ ReadSeqbegin(t) \/ ReadValue(t) \/ ReadSeqretry(t)
             \/ ShowValue(t) \/ ReadUnlock(t)
Atomic(t) == AtomicInc(t) \/ LogCount(t)
Thread(t) == Loop(t) \/ Msleep(t) \/ Writer(t) \/ Reader(t) \/ Atomic(t)

Next == \/ KthreadRun \/ Rmmod \/ KthreadStop \/ KthreadJoin
        \/ \E t \in Threads : Thread(t)

Spec == Init /\ [][Next]_vars

\* The scheduler runs every thread that can run; the locks queue their waiters,
\* so one that sees its lock free again and again gets it.  Nobody has to call
\* rmmod.
Fairness ==
  /\ WF_vars(KthreadRun) /\ WF_vars(KthreadStop) /\ WF_vars(KthreadJoin)
  /\ \A t \in Threads :
       WF_vars(Thread(t)) /\ SF_vars(WriteLock(t)) /\ SF_vars(ReadLock(t))

FairSpec == Spec /\ Fairness

-----------------------------------------------------------------------------
(* Properties *)

\* A thread that may write excludes every other from the lock; readers of the
\* rwlock only exclude writers.
MutualExclusion ==
  \A s, t \in Threads :
    pc[s] \in Critical /\ (pc[t] \in Critical \/ t \in readers) => s = t

\* No increment is lost: whichever of the threads of 16_mutex or 17_spinlock
\* writes it, the n-th line shows n. Those of 23_atomic_variable read the count
\* again for the line: the n-th shows at least n, and no more than what has been
\* counted, which is never ahead of the log by more than one for each thread.
Logs == Counts \/ driver = "atomic"
Log  == INSTANCE Ticker WITH ahead <- IF driver = "atomic" THEN N ELSE 1,
                             count <- IF Logs THEN etx_global_variable ELSE 0
TickerSpec == Log!Spec

\* A reader logs only the value that was committed when its attempt began,
\* although under the seqlock the writer may run at any point of it.
CleanRead == \A t \in Threads : pc[t] = "show" => value[t] = snapshot[t]

\* The seqlock's reader accepts a value only if no write was in progress or
\* completed since its attempt began.
AcceptsOnlyUndisturbed ==
  [][\A t \in Threads : pc[t] = "retry" /\ pc'[t] = "show" =>
       overtaken[t] = 0 /\ owner = Nobody]_vars

\* When etx_driver_exit goes on to destroy the device, no thread of the module
\* is running its code and nobody holds the lock.
QuietAfterJoin ==
  joined = N => owner = Nobody /\ readers = {} /\ \A t \in Threads : pc[t] = "done"

\* rmmod always returns, even if a thread is waiting for a lock, or retrying a
\* read, when it is asked to stop.
RmmodReturns == removing ~> joined = N
=============================================================================

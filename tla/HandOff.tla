------------------------------- MODULE HandOff -------------------------------
(***************************************************************************)
(* 09_waitqueue and 21_completion (the static and the dynamic method run   *)
(* the same code): a kernel thread waits; each read of the device, and at  *)
(* last module_exit, says in a flag why it wakes the thread, and wakes it. *)
(* The flag is shared without a lock and the thread resets it.             *)
(***************************************************************************)
EXTENDS Naturals, FiniteSets

CONSTANTS Primitives, \* among "wait_queue" "completion"
          Readers,    \* processes that read the device
          MaxReads    \* bound on the number of reads in a behaviour

ASSUME PrimitivesAssumption == Primitives \subseteq {"wait_queue", "completion"}
ASSUME ReadersAssumption    == IsFiniteSet(Readers)

VARIABLES
  primitive,          \* what the driver waits with
  flag,               \* wait_queue_flag, completion_flag: 0 nothing, 1 read, 2 exit
  done,               \* data_read_done.done
  read_count,
  thread,             \* wait_function: "wait" "asleep" "check" "count" "reset" "returned"
  reader,             \* each etx_read: "idle", "wake", or "test" "complete"
  exit,               \* rmmod: "loaded", "wake", or "test" "complete"; "cleanup" "unloaded"
  reads,              \* history: how many reads were made
  unserved            \* history: a read has set the flag, and the thread has not yet counted
                      \* (09), or woken (21), since; but see Overwritten

vars == <<primitive, flag, done, read_count, thread, reader, exit, reads, unserved>>

TypeOK ==
  /\ primitive \in Primitives
  /\ flag \in 0..2 /\ done \in Nat
  /\ read_count \in Nat /\ reads \in Nat
  /\ thread \in {"wait", "asleep", "check", "count", "reset", "returned"}
  /\ reader \in [Readers -> {"idle", "wake", "test", "complete"}]
  /\ exit \in {"loaded", "wake", "test", "complete", "cleanup", "unloaded"}
  /\ unserved \in BOOLEAN

Init ==
  /\ primitive \in Primitives
  /\ flag = 0 /\ done = 0 /\ read_count = 0 /\ reads = 0
  /\ thread = "wait"
  /\ reader = [r \in Readers |-> "idle"]
  /\ exit = "loaded" /\ unserved = FALSE

-----------------------------------------------------------------------------
(* wait_function *)

Goto(from, to) == thread = from /\ thread' = to

\* Seeded fault: the thread clears the flag on its way to sleep, not when it has counted.
WaitEventClears ==
  /\ primitive = "wait_queue"
  /\ Goto("wait", "asleep")
  /\ flag' = 0
  /\ UNCHANGED <<primitive, done, read_count, reader, exit, reads, unserved>>

\* wait_event_interruptible queues the thread before it looks at the flag, so
\* looking and falling asleep are one step for a wake_up.
WaitEvent ==
  /\ primitive = "wait_queue"
  /\ Goto("wait", IF flag # 0 THEN "check" ELSE "asleep")
  /\ UNCHANGED <<primitive, flag, done, read_count, reader, exit, reads, unserved>>

\* wait_for_completion returns at once if done is positive, else sleeps.
WaitForCompletion ==
  /\ primitive = "completion"
  /\ Goto("wait", "check")
  /\ done > 0 /\ done' = done - 1
  /\ unserved' = FALSE
  /\ UNCHANGED <<primitive, flag, read_count, reader, exit, reads>>

CheckFlag ==
  /\ Goto("check", IF flag = 2 THEN "returned" ELSE "count")
  /\ UNCHANGED <<primitive, flag, done, read_count, reader, exit, reads, unserved>>

CountRead ==
  /\ Goto("count", "reset")
  /\ read_count' = read_count + 1
  /\ unserved' = (unserved /\ primitive = "completion")
  /\ UNCHANGED <<primitive, flag, done, reader, exit, reads>>

ResetFlag ==
  /\ Goto("reset", "wait")
  /\ flag' = 0
  /\ UNCHANGED <<primitive, done, read_count, reader, exit, reads, unserved>>

WaitFunction == WaitEvent \/ WaitForCompletion \/ CheckFlag \/ CountRead \/ ResetFlag

\* wake_up_interruptible
Woken == IF thread = "asleep" THEN "wait" ELSE thread

-----------------------------------------------------------------------------
(* etx_read *)

ReaderGoto(r, from, to) == reader[r] = from /\ reader' = [reader EXCEPT ![r] = to]

\* 09_waitqueue: a read that comes when the thread has counted and is about to reset the
\* flag is lost (static_method/driver.c:75-76).  No property speaks of it.
Overwritten == primitive = "wait_queue" /\ thread = "reset"

ReadSetsFlag(r) ==
  /\ exit = "loaded" /\ reads < MaxReads
  /\ ReaderGoto(r, "idle", IF primitive = "wait_queue" THEN "wake" ELSE "test")
  /\ flag' = 1
  /\ reads' = reads + 1
  /\ unserved' = (unserved \/ ~Overwritten)
  /\ UNCHANGED <<primitive, done, read_count, thread, exit>>

\* Seeded fault: the read sets the flag and wakes nobody.
ReadWakesNobody(r) ==
  /\ ReaderGoto(r, "wake", "idle")
  /\ UNCHANGED <<primitive, flag, done, read_count, thread, exit, reads, unserved>>

ReadWakes(r) ==
  /\ ReaderGoto(r, "wake", "idle")
  /\ thread' = Woken
  /\ UNCHANGED <<primitive, flag, done, read_count, exit, reads, unserved>>

\* Seeded fault: the sense of completion_done is the one its comment gives.
ReadTestsWaiter(r) ==
  /\ ReaderGoto(r, "test", IF thread = "wait" THEN "complete" ELSE "idle")
  /\ UNCHANGED <<primitive, flag, done, read_count, thread, exit, reads, unserved>>

\* completion_done is true while done is positive.
ReadTestsDone(r) ==
  /\ ReaderGoto(r, "test", IF done = 0 THEN "complete" ELSE "idle")
  /\ UNCHANGED <<primitive, flag, done, read_count, thread, exit, reads, unserved>>

ReadCompletes(r) ==
  /\ ReaderGoto(r, "complete", "idle")
  /\ done' = done + 1
  /\ UNCHANGED <<primitive, flag, read_count, thread, exit, reads, unserved>>

-----------------------------------------------------------------------------
(* etx_driver_exit; the kernel refuses rmmod while the device is open *)

ExitGoto(from, to) == exit = from /\ exit' = to

ExitSetsFlag ==
  /\ \A r \in Readers : reader[r] = "idle"
  /\ ExitGoto("loaded", IF primitive = "wait_queue" THEN "wake" ELSE "test")
  /\ flag' = 2
  /\ UNCHANGED <<primitive, done, read_count, thread, reader, reads, unserved>>

\* Seeded fault: exit sets the flag and wakes nobody.
ExitWakesNobody ==
  /\ ExitGoto("wake", "cleanup")
  /\ UNCHANGED <<primitive, flag, done, read_count, thread, reader, reads, unserved>>

ExitWakes ==
  /\ ExitGoto("wake", "cleanup")
  /\ thread' = Woken
  /\ UNCHANGED <<primitive, flag, done, read_count, reader, reads, unserved>>

ExitTestsDone ==
  /\ ExitGoto("test", IF done = 0 THEN "complete" ELSE "cleanup")
  /\ UNCHANGED <<primitive, flag, done, read_count, thread, reader, reads, unserved>>

ExitCompletes ==
  /\ ExitGoto("complete", "cleanup")
  /\ done' = done + 1
  /\ UNCHANGED <<primitive, flag, read_count, thread, reader, reads, unserved>>

\* device_destroy .. unregister_chrdev_region; then the module is freed.
ExitCleansUp ==
  /\ ExitGoto("cleanup", "unloaded")
  /\ UNCHANGED <<primitive, flag, done, read_count, thread, reader, reads, unserved>>

DriverExit == ExitWakes \/ ExitTestsDone \/ ExitCompletes \/ ExitCleansUp

EtxRead(r) == ReadWakes(r) \/ ReadTestsDone(r) \/ ReadCompletes(r)

Next == \/ WaitFunction \/ ExitSetsFlag \/ DriverExit
        \/ \E r \in Readers : ReadSetsFlag(r) \/ EtxRead(r)

Spec == Init /\ [][Next]_vars

\* The thread, a read under way and rmmod under way are scheduled again and
\* again; nobody has to read or to remove the module.
FairSpec == /\ Spec
            /\ WF_vars(WaitFunction) /\ WF_vars(DriverExit)
            /\ \A r \in Readers : WF_vars(EtxRead(r))

-----------------------------------------------------------------------------
(* Properties *)

\* 09_waitqueue: the thread never sleeps on an event; if it is asleep and the
\* flag is set, a wake-up is on its way.
NoMissedWakeup ==
  thread = "asleep" /\ flag # 0 =>
    exit = "wake" \/ \E r \in Readers : reader[r] = "wake"

\* 21_completion: once the reads under way have returned, a read the thread has
\* not woken for has left a completion for it, whatever the thread was doing
\* when the read came.
NoLostEvent ==
  primitive = "completion" /\ unserved /\ (\A r \in Readers : reader[r] = "idle")
    => done > 0

\* 09_waitqueue: until rmmod, a read made at any other time than Overwritten says is counted,
\* alone or with others: the thread is about to count, or will find the flag.
NoLostRead ==
  primitive = "wait_queue" /\ exit = "loaded" /\ unserved =>
    thread = "count" \/ (flag = 1 /\ thread \in {"wait", "asleep", "check"})

\* Every counted event belongs to a read of its own: none is counted twice, and
\* module_exit is not counted (21_completion may count it, if it finds the flag
\* reset).
NoPhantomRead == primitive = "wait_queue" \/ exit = "loaded" => read_count <= reads

\* Reads may share a count, and none is counted twice.  On a busy thread none is lost, but
\* for the read of 09_waitqueue whose flag the thread resets.
ReadsAreCounted == NoLostEvent /\ NoLostRead /\ NoPhantomRead

\* 21_completion: the thread does wake for every read, unless it leaves first.
EventServed ==
  primitive = "completion" /\ unserved ~> ~unserved \/ thread = "returned"

\* If the exit flag is still there when the thread comes back for the next event,
\* the thread returns, though rmmod does not wait for it.
ExitNoticed == flag = 2 /\ thread \in {"wait", "asleep", "check"} ~> thread = "returned"
=============================================================================

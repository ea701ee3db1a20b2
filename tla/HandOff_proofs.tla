---------------------------- MODULE HandOff_proofs ----------------------------
(***************************************************************************)
(* For any finite set of readers and any number of reads: the thread of    *)
(* 09_waitqueue never sleeps on an event and loses only the reads whose    *)
(* flag it resets, no event of 21_completion is lost, and neither driver   *)
(* counts a read twice.  For any number of                                 *)
(* applications and readers of 18_signal: the driver's bare pointer names  *)
(* the last task to register and never one that has ended, and only the    *)
(* end of that task between test and use leads a read astray.  For any     *)
(* number of pollers and users of 34_poll, 35_select and 36_epoll: no      *)
(* poller sleeps on an event.                                              *)
(***************************************************************************)
EXTENDS HandOff, Signal, Poll, FiniteSetTheorems, TLAPS

\* Which program counters go with which primitive.
Shape ==
  /\ primitive = "wait_queue" =>
       /\ reader \in [Readers -> {"idle", "wake"}]
       /\ exit \notin {"test", "complete"}
  /\ primitive = "completion" =>
       /\ reader \in [Readers -> {"idle", "test", "complete"}]
       /\ thread # "asleep" /\ exit # "wake"

\* The thread leaves wait_event for an event only, and nobody but itself takes
\* the event back.
SeenEvent == primitive = "wait_queue" /\ thread = "check" => flag # 0

\* 09_waitqueue: the read the thread is going to count, if it has seen one or
\* will see one.
Uncounted ==
  IF thread = "count" \/ (thread \in {"wait", "asleep", "check"} /\ flag = 1)
  THEN 1 ELSE 0

CountsOnce == primitive = "wait_queue" => read_count + Uncounted <= reads

\* 21_completion: the reads that have set the flag and not yet returned, and the
\* completion the thread has taken and not yet counted.
Busy   == {r \in Readers : reader[r] # "idle"}
InHand == IF thread \in {"check", "count"} THEN 1 ELSE 0

ClaimsOnce ==
  primitive = "completion" /\ exit = "loaded" =>
    read_count + InHand + done + Cardinality(Busy) <= reads

Pending == primitive = "completion" /\ unserved => done > 0 \/ Busy # {}

\* Before rmmod nobody says "exit", and the thread does not return.
Loaded == exit = "loaded" => flag # 2 /\ thread # "returned"

IInv == /\ TypeOK /\ Shape /\ NoMissedWakeup /\ SeenEvent
        /\ Loaded /\ NoLostRead
        /\ CountsOnce /\ ClaimsOnce /\ Pending

LEMMA InitInvariant == Init => IInv
<1> SUFFICES ASSUME Init PROVE IInv  OBVIOUS
<1>1. TypeOK
  <2>1. reader \in [Readers -> {"idle", "wake", "test", "complete"}]  BY DEF Init
  <2>2. flag \in 0..2 /\ done \in Nat /\ read_count \in Nat /\ reads \in Nat
    BY DEF Init
  <2>3. unserved \in BOOLEAN  BY DEF Init
  <2> QED  BY <2>1, <2>2, <2>3, Zenon DEF Init, TypeOK
<1>2. Shape  BY DEF Init, Shape
<1>3. NoMissedWakeup /\ SeenEvent /\ CountsOnce /\ Pending
  BY DEF Init, NoMissedWakeup, SeenEvent, CountsOnce, Uncounted, Pending
<1>4. ClaimsOnce
  <2>1. Busy = {}  BY DEF Init, Busy
  <2>2. Cardinality(Busy) = 0  BY <2>1, FS_EmptySet
  <2> QED  BY <2>2 DEF Init, ClaimsOnce, InHand
<1>5. Loaded /\ NoLostRead  BY DEF Init, Loaded, NoLostRead
<1> QED  BY <1>1, <1>2, <1>3, <1>4, <1>5 DEF IInv

\* The number of busy reads follows the reads that begin and end.
LEMMA BusyIsFinite == Cardinality(Busy) \in Nat /\ IsFiniteSet(Busy)
<1>1. IsFiniteSet(Busy)
  BY ReadersAssumption, FS_Subset, Busy \subseteq Readers DEF Busy
<1> QED  BY <1>1, FS_CardinalityType

LEMMA ReadBegins ==
  ASSUME TypeOK, NEW r \in Readers, reader[r] = "idle", NEW pc, pc # "idle",
         reader' = [reader EXCEPT ![r] = pc]
  PROVE  Cardinality(Busy') = Cardinality(Busy) + 1
<1>1. Busy' = Busy \cup {r} /\ r \notin Busy  BY DEF Busy, TypeOK
<1> QED  BY <1>1, BusyIsFinite, FS_AddElement

LEMMA ReadGoesOn ==
  ASSUME TypeOK, NEW r \in Readers, reader[r] # "idle", NEW pc,
         reader' = [reader EXCEPT ![r] = pc]
  PROVE  Cardinality(Busy') =
           IF pc = "idle" THEN Cardinality(Busy) - 1 ELSE Cardinality(Busy)
<1>1. CASE pc = "idle"
  <2>1. Busy' = Busy \ {r} /\ r \in Busy  BY <1>1 DEF Busy, TypeOK
  <2>2. Cardinality(Busy') = Cardinality(Busy) - 1
    BY <2>1, BusyIsFinite, FS_RemoveElement
  <2> QED  BY <1>1, <2>2
<1>2. CASE pc # "idle"
  <2>1. Busy' = Busy  BY <1>2 DEF Busy, TypeOK
  <2> QED  BY <1>2, <2>1
<1> QED  BY <1>1, <1>2

-----------------------------------------------------------------------------
(* One lemma per conjunct of the invariant; Facts is what they all start from. *)

Facts == IInv /\ [Next]_vars

LEMMA TypeStep == Facts => TypeOK'
<1> SUFFICES ASSUME Facts PROVE TypeOK'  OBVIOUS
<1>0. TypeOK /\ [Next]_vars  BY DEF Facts, IInv
<1> USE DEF TypeOK, Goto, ReaderGoto, ExitGoto, Woken
<1>1. CASE WaitEvent          BY <1>0, <1>1 DEF WaitEvent
<1>2. CASE WaitForCompletion
  <2>1. done' \in Nat  BY <1>0, <1>2 DEF WaitForCompletion
  <2> QED  BY <1>0, <1>2, <2>1 DEF WaitForCompletion
<1>3. CASE CheckFlag          BY <1>0, <1>3 DEF CheckFlag
<1>4. CASE CountRead
  <2>1. read_count' \in Nat  BY <1>0, <1>4 DEF CountRead
  <2> QED  BY <1>0, <1>4, <2>1 DEF CountRead
<1>5. CASE ResetFlag          BY <1>0, <1>5 DEF ResetFlag
<1>6. CASE ExitSetsFlag
  <2>1. exit' \in {"wake", "test"} /\ flag' = 2
    BY <1>6, Zenon DEF ExitSetsFlag
  <2>2. UNCHANGED <<primitive, done, read_count, thread, reader, reads, unserved>>
    BY <1>6 DEF ExitSetsFlag
  <2> QED  BY <1>0, <2>1, <2>2
<1>7. CASE DriverExit
  <2>1. done' \in Nat
    BY <1>0, <1>7 DEF DriverExit, ExitWakes, ExitTestsDone, ExitCompletes, ExitCleansUp
  <2> QED
    BY <1>0, <1>7, <2>1 DEF DriverExit, ExitWakes, ExitTestsDone, ExitCompletes, ExitCleansUp
<1>8. ASSUME NEW r \in Readers, ReadSetsFlag(r) PROVE TypeOK'
  <2>1. reads' = reads + 1 /\ flag' = 1 /\ unserved' \in BOOLEAN
    BY <1>8, Zenon DEF ReadSetsFlag
  <2>2. UNCHANGED <<primitive, done, read_count, thread, exit>>
    BY <1>8, Zenon DEF ReadSetsFlag
  <2>3. PICK pc \in {"wake", "test"} : reader' = [reader EXCEPT ![r] = pc]
    BY <1>8, Zenon DEF ReadSetsFlag
  <2>5. reads' \in Nat /\ flag' \in 0..2  BY <1>0, <2>1
  <2>4. reader' \in [Readers -> {"idle", "wake", "test", "complete"}]
    BY <1>0, <2>3
  <2> QED  BY <1>0, <2>1, <2>2, <2>4, <2>5, Zenon
<1>9. ASSUME NEW r \in Readers, EtxRead(r) PROVE TypeOK'
  <2>1. done' \in Nat
    BY <1>0, <1>9 DEF EtxRead, ReadWakes, ReadTestsDone, ReadCompletes
  <2> QED  BY <1>0, <1>9, <2>1 DEF EtxRead, ReadWakes, ReadTestsDone, ReadCompletes
<1>10. CASE UNCHANGED vars    BY <1>0, <1>10 DEF vars
<1> QED
  BY <1>0, <1>1, <1>2, <1>3, <1>4, <1>5, <1>6, <1>7, <1>8, <1>9, <1>10
  DEF Next, WaitFunction

\* The wait queue's half: shape, and what the thread and the wakers owe each other.
LEMMA WaitQueueStep == Facts => Shape' /\ NoMissedWakeup' /\ SeenEvent'
<1> SUFFICES ASSUME Facts PROVE Shape' /\ NoMissedWakeup' /\ SeenEvent'  OBVIOUS
<1>0. TypeOK /\ Shape /\ NoMissedWakeup /\ SeenEvent /\ [Next]_vars
  BY DEF Facts, IInv
<1> USE DEF TypeOK, Shape, NoMissedWakeup, SeenEvent, Goto, ReaderGoto, ExitGoto, Woken
<1>1. CASE WaitFunction
  BY <1>0, <1>1 DEF WaitFunction, WaitEvent, WaitForCompletion, CheckFlag, CountRead,
                    ResetFlag
<1>a. primitive \in {"wait_queue", "completion"}  BY <1>0, PrimitivesAssumption
<1>2. CASE ExitSetsFlag       BY <1>0, <1>a, <1>2 DEF ExitSetsFlag
<1>3. CASE DriverExit
  BY <1>0, <1>3 DEF DriverExit, ExitWakes, ExitTestsDone, ExitCompletes, ExitCleansUp
<1>4. ASSUME NEW r \in Readers, ReadSetsFlag(r)
      PROVE  Shape' /\ NoMissedWakeup' /\ SeenEvent'
  <2>1. CASE primitive = "wait_queue"
    <3>1. /\ reader' = [reader EXCEPT ![r] = "wake"] /\ flag' = 1
          /\ UNCHANGED <<primitive, thread, exit>>
      BY <1>4, <2>1 DEF ReadSetsFlag
    <3> QED  BY <1>0, <2>1, <3>1
  <2>2. CASE primitive = "completion"
    <3>1. /\ reader' = [reader EXCEPT ![r] = "test"] /\ flag' = 1
          /\ UNCHANGED <<primitive, thread, exit>>
      BY <1>4, <2>2 DEF ReadSetsFlag
    <3> QED  BY <1>0, <2>2, <3>1
  <2> QED  BY <1>a, <2>1, <2>2
<1>5. ASSUME NEW r \in Readers, EtxRead(r)
      PROVE  Shape' /\ NoMissedWakeup' /\ SeenEvent'
  BY <1>0, <1>5 DEF EtxRead, ReadWakes, ReadTestsDone, ReadCompletes
<1>6. CASE UNCHANGED vars     BY <1>0, <1>6 DEF vars
<1> QED  BY <1>0, <1>1, <1>2, <1>3, <1>4, <1>5, <1>6 DEF Next

\* A read that set the flag finds the thread before its next count.
LEMMA FlagIsSeen == Facts => Loaded' /\ NoLostRead'
<1> SUFFICES ASSUME Facts PROVE Loaded' /\ NoLostRead'  OBVIOUS
<1>0. TypeOK /\ Shape /\ SeenEvent /\ Loaded /\ NoLostRead /\ [Next]_vars  BY DEF Facts, IInv
<1> USE DEF TypeOK, Loaded, NoLostRead, Goto, ReaderGoto, ExitGoto, Woken
<1>1. CASE WaitFunction
  <2>1. CASE WaitEvent  BY <1>0, <2>1 DEF WaitEvent
  <2>2. CASE WaitForCompletion  BY <1>0, <2>2 DEF WaitForCompletion
  <2>3. CASE CheckFlag  BY <1>0, <2>3 DEF CheckFlag
  <2>4. CASE CountRead
    <3>1. /\ thread = "count" /\ thread' = "reset" /\ UNCHANGED <<primitive, flag, exit>>
          /\ (unserved' => primitive = "completion")
      BY <2>4 DEF CountRead
    <3> QED  BY <1>0, <3>1
  <2>5. CASE ResetFlag  BY <1>0, <2>5 DEF ResetFlag
  <2> QED  BY <1>1, <2>1, <2>2, <2>3, <2>4, <2>5 DEF WaitFunction
<1>2. CASE ExitSetsFlag \/ DriverExit
  BY <1>0, <1>2
  DEF ExitSetsFlag, DriverExit, ExitWakes, ExitTestsDone, ExitCompletes, ExitCleansUp
<1>3. ASSUME NEW r \in Readers, ReadSetsFlag(r) PROVE Loaded' /\ NoLostRead'
  <2>1. /\ flag' = 1 /\ (unserved' => unserved \/ ~Overwritten) /\ exit = "loaded"
        /\ UNCHANGED <<primitive, thread, exit>>
    BY <1>3 DEF ReadSetsFlag
  <2> QED  BY <1>0, <2>1 DEF Overwritten
<1>4. ASSUME NEW r \in Readers, EtxRead(r) PROVE Loaded' /\ NoLostRead'
  BY <1>0, <1>4 DEF EtxRead, ReadWakes, ReadTestsDone, ReadCompletes
<1>5. CASE UNCHANGED vars     BY <1>0, <1>5 DEF vars
<1> QED  BY <1>0, <1>1, <1>2, <1>3, <1>4, <1>5 DEF Next

\* The two ledgers of counted reads, and the event that is not lost.
LEMMA Shares == Uncounted \in 0..1 /\ InHand \in 0..1
  BY DEF Uncounted, InHand

LEMMA Weigh ==
  ASSUME NEW a \in Nat, NEW b \in Nat, NEW u \in 0..1, NEW v \in 0..1
  PROVE  /\ a + u <= b /\ v <= u => a + v <= b
         /\ a + u <= b => a + v <= b + 1 /\ a <= b
  OBVIOUS

LEMMA ThreadKeepsLedgers ==
  ASSUME Facts, WaitFunction
  PROVE  CountsOnce' /\ ClaimsOnce' /\ Pending'
<1>0. TypeOK /\ SeenEvent /\ CountsOnce /\ ClaimsOnce /\ Pending
  BY DEF Facts, IInv
<1>1. read_count \in Nat /\ reads \in Nat /\ done \in Nat /\ flag \in 0..2
  BY <1>0 DEF TypeOK
<1>2. /\ Cardinality(Busy) \in Nat /\ Uncounted \in 0..1 /\ InHand \in 0..1
      /\ Uncounted' \in 0..1 /\ InHand' \in 0..1
  BY BusyIsFinite, Shares DEF Uncounted, InHand
<1>3. UNCHANGED <<reader, exit, primitive, reads>> /\ Busy' = Busy
  BY DEF WaitFunction, WaitEvent, WaitForCompletion, CheckFlag, CountRead, ResetFlag, Busy
<1>4. CASE WaitEvent
  <2>1. UNCHANGED <<flag, done, read_count>> /\ (unserved' => unserved)
    BY <1>4 DEF WaitEvent
  <2>2. thread = "wait" /\ thread' \in {"check", "asleep"}
    BY <1>4 DEF WaitEvent, Goto
  <2>3. Uncounted' = Uncounted  BY <2>1, <2>2 DEF Uncounted
  <2>4. primitive # "completion"  BY <1>4 DEF WaitEvent
  <2> QED  BY <1>0, <1>3, <2>1, <2>3, <2>4 DEF CountsOnce, ClaimsOnce, Pending
<1>5. CASE WaitForCompletion
  <2>1. done > 0 /\ done' = done - 1 /\ ~unserved' /\ read_count' = read_count
    BY <1>5 DEF WaitForCompletion
  <2>2. InHand = 0  BY <1>5 DEF WaitForCompletion, Goto, InHand
  <2>3. primitive = "completion"  BY <1>5 DEF WaitForCompletion
  <2>4. ClaimsOnce'  BY <1>0, <1>1, <1>2, <1>3, <2>1, <2>2, <2>3 DEF ClaimsOnce
  <2> QED  BY <1>3, <2>1, <2>3, <2>4 DEF CountsOnce, Pending
<1>6. CASE CheckFlag
  <2>1. UNCHANGED <<flag, done, read_count, unserved>>  BY <1>6 DEF CheckFlag
  <2>2. thread = "check" /\ thread' \in {"returned", "count"}
    BY <1>6 DEF CheckFlag, Goto
  <2>3. flag = 2 => thread' = "returned"  BY <1>6 DEF CheckFlag, Goto
  <2>4. InHand = 1  BY <2>2 DEF InHand
  <2>5. primitive = "wait_queue" => Uncounted' <= Uncounted
    <3>1. CASE flag = 2
      <4>1. Uncounted' = 0  BY <2>3, <3>1 DEF Uncounted
      <4> QED  BY <1>2, <4>1
    <3>2. CASE flag = 1
      <4>1. Uncounted = 1  BY <2>2, <3>2 DEF Uncounted
      <4> QED  BY <1>2, <4>1
    <3> QED  BY <1>0, <1>1, <2>2, <3>1, <3>2 DEF SeenEvent
  <2>6. CountsOnce'
    <3>1. primitive = "wait_queue" => read_count + Uncounted' <= reads
      BY <1>0, <1>1, <1>2, <2>5, Weigh DEF CountsOnce
    <3> QED  BY <1>3, <2>1, <3>1 DEF CountsOnce
  <2>7. ClaimsOnce'  BY <1>0, <1>1, <1>2, <1>3, <2>1, <2>4 DEF ClaimsOnce
  <2> QED  BY <1>0, <1>3, <2>1, <2>6, <2>7 DEF Pending
<1>7. CASE CountRead
  <2>1. read_count' = read_count + 1 /\ UNCHANGED <<flag, done>> /\ (unserved' => unserved)
    BY <1>7 DEF CountRead
  <2>2. thread = "count" /\ thread' = "reset"  BY <1>7 DEF CountRead, Goto
  <2>3. Uncounted = 1 /\ Uncounted' = 0  BY <2>2 DEF Uncounted
  <2>4. InHand = 1 /\ InHand' = 0        BY <2>2 DEF InHand
  <2>5. CountsOnce'  BY <1>0, <1>1, <1>3, <2>1, <2>3 DEF CountsOnce
  <2>6. ClaimsOnce'  BY <1>0, <1>1, <1>2, <1>3, <2>1, <2>4 DEF ClaimsOnce
  <2> QED  BY <1>0, <1>3, <2>1, <2>5, <2>6 DEF Pending
<1>8. CASE ResetFlag
  <2>1. flag' = 0 /\ UNCHANGED <<done, read_count, unserved>>  BY <1>8 DEF ResetFlag
  <2>2. thread = "reset" /\ thread' = "wait"  BY <1>8 DEF ResetFlag, Goto
  <2>3. Uncounted' = 0  BY <2>1, <2>2 DEF Uncounted
  <2>4. InHand' = 0     BY <2>2 DEF InHand
  <2>5. CountsOnce'  BY <1>0, <1>1, <1>2, <1>3, <2>1, <2>3 DEF CountsOnce
  <2>6. ClaimsOnce'  BY <1>0, <1>1, <1>2, <1>3, <2>1, <2>4 DEF ClaimsOnce
  <2> QED  BY <1>0, <1>3, <2>1, <2>5, <2>6 DEF Pending
<1> QED  BY <1>4, <1>5, <1>6, <1>7, <1>8 DEF WaitFunction

LEMMA ReadKeepsLedgers ==
  ASSUME Facts, NEW r \in Readers, ReadSetsFlag(r) \/ EtxRead(r)
  PROVE  CountsOnce' /\ ClaimsOnce' /\ Pending'
<1>0. TypeOK /\ Shape /\ CountsOnce /\ ClaimsOnce /\ Pending  BY DEF Facts, IInv
<1>1. read_count \in Nat /\ reads \in Nat /\ done \in Nat  BY <1>0 DEF TypeOK
<1>2. /\ Cardinality(Busy) \in Nat /\ Uncounted \in 0..1 /\ InHand \in 0..1
      /\ Uncounted' \in 0..1
  BY BusyIsFinite, Shares DEF Uncounted
<1>3. CASE ReadSetsFlag(r)
  <2>1. /\ reads' = reads + 1
        /\ UNCHANGED <<primitive, done, read_count, thread, exit>>
    BY <1>3, Zenon DEF ReadSetsFlag
  <2>2. PICK pc \in {"wake", "test"} :
          reader[r] = "idle" /\ reader' = [reader EXCEPT ![r] = pc]
    BY <1>3, Zenon DEF ReadSetsFlag, ReaderGoto
  <2>3. pc # "idle"  OBVIOUS
  <2>4. Cardinality(Busy') = Cardinality(Busy) + 1
    BY <1>0, <2>2, <2>3, ReadBegins
  <2>5. r \in Busy'     BY <1>0, <2>2 DEF Busy, TypeOK
  <2>6. InHand' = InHand  BY <2>1 DEF InHand
  <2>7. CountsOnce'
    <3>1. primitive = "wait_queue" => read_count + Uncounted' <= reads + 1
      BY <1>0, <1>1, <1>2, Weigh DEF CountsOnce
    <3> QED  BY <2>1, <3>1 DEF CountsOnce
  <2>8. ClaimsOnce'  BY <1>0, <1>1, <1>2, <2>1, <2>4, <2>6 DEF ClaimsOnce
  <2> QED  BY <2>5, <2>7, <2>8 DEF Pending
<1>4. CASE EtxRead(r)
  <2>1. PICK pc \in {"idle", "complete"} :
          reader[r] # "idle" /\ reader' = [reader EXCEPT ![r] = pc]
    BY <1>4 DEF EtxRead, ReadWakes, ReadTestsDone, ReadCompletes, ReaderGoto
  <2>2. Cardinality(Busy') =
          IF pc = "idle" THEN Cardinality(Busy) - 1 ELSE Cardinality(Busy)
    BY <1>0, <2>1, ReadGoesOn
  <2>3. pc # "idle" => r \in Busy'  BY <1>0, <2>1 DEF Busy, TypeOK
  <2>4. reader'[r] = pc  BY <1>0, <2>1 DEF TypeOK
  <2>5. UNCHANGED <<primitive, flag, read_count, exit, reads, unserved>>
    BY <1>4 DEF EtxRead, ReadWakes, ReadTestsDone, ReadCompletes
  <2>6. Uncounted' = Uncounted
    BY <1>4, <2>5
    DEF EtxRead, ReadWakes, Woken, ReadTestsDone, ReadCompletes, Uncounted
  <2>7. CountsOnce'  BY <1>0, <2>5, <2>6 DEF CountsOnce
  <2>8. CASE ReadWakes(r)
    <3>1. primitive # "completion"  BY <1>0, <2>8 DEF ReadWakes, ReaderGoto, Shape
    <3> QED  BY <2>5, <2>7, <3>1 DEF ClaimsOnce, Pending
  <2>9. CASE ReadTestsDone(r)
    <3>1. UNCHANGED <<done, thread>> /\ (done = 0 => pc = "complete")
      BY <1>0, <2>4, <2>9 DEF ReadTestsDone, ReaderGoto, TypeOK
    <3>2. InHand' = InHand  BY <3>1 DEF InHand
    <3>3. ClaimsOnce'  BY <1>0, <1>1, <1>2, <2>2, <2>5, <3>1, <3>2 DEF ClaimsOnce
    <3>4. done = 0 => Busy' # {}  BY <2>3, <3>1
    <3>5. Pending'  BY <1>1, <3>1, <3>4 DEF Pending
    <3> QED  BY <2>7, <3>3, <3>5
  <2>10. CASE ReadCompletes(r)
    <3>1. thread' = thread /\ pc = "idle" /\ done' = done + 1
      BY <1>0, <2>4, <2>10 DEF ReadCompletes, ReaderGoto, TypeOK
    <3>2. InHand' = InHand  BY <3>1 DEF InHand
    <3>3. ClaimsOnce'  BY <1>0, <1>1, <1>2, <2>2, <2>5, <3>1, <3>2 DEF ClaimsOnce
    <3>4. Pending'     BY <1>1, <3>1 DEF Pending
    <3> QED  BY <2>7, <3>3, <3>4
  <2> QED  BY <1>4, <2>8, <2>9, <2>10 DEF EtxRead
<1> QED  BY <1>3, <1>4

LEMMA LedgerStep == Facts => CountsOnce' /\ ClaimsOnce' /\ Pending'
<1> SUFFICES ASSUME Facts PROVE CountsOnce' /\ ClaimsOnce' /\ Pending'  OBVIOUS
<1>0. TypeOK /\ CountsOnce /\ ClaimsOnce /\ Pending /\ [Next]_vars
  BY DEF Facts, IInv
<1>1. read_count \in Nat /\ reads \in Nat /\ done \in Nat  BY <1>0 DEF TypeOK
<1>2. CASE ExitSetsFlag
  <2>1. /\ flag' = 2 /\ exit' # "loaded"
        /\ UNCHANGED <<primitive, done, read_count, thread, reads, unserved>>
    BY <1>2 DEF ExitSetsFlag, ExitGoto
  <2>2. Busy' = Busy  BY <1>2 DEF ExitSetsFlag, Busy
  <2>3. Uncounted \in 0..1 /\ Uncounted' \in 0..1 /\ Uncounted' <= Uncounted
    BY <2>1 DEF Uncounted
  <2>4. CountsOnce'
    <3>1. primitive = "wait_queue" => read_count + Uncounted' <= reads
      BY <1>0, <1>1, <2>3, Weigh DEF CountsOnce
    <3> QED  BY <2>1, <3>1 DEF CountsOnce
  <2> QED  BY <1>0, <2>1, <2>2, <2>4 DEF ClaimsOnce, Pending
<1>3. CASE DriverExit
  <2>1. /\ exit' # "loaded" /\ done' \in Nat /\ done' >= done
        /\ UNCHANGED <<primitive, flag, read_count, reader, reads, unserved>>
    BY <1>1, <1>3
    DEF DriverExit, ExitWakes, ExitTestsDone, ExitCompletes, ExitCleansUp, ExitGoto
  <2>2. Busy' = Busy  BY <2>1 DEF Busy
  <2>3. Uncounted' = Uncounted
    BY <1>3, <2>1
    DEF DriverExit, ExitWakes, Woken, ExitTestsDone, ExitCompletes, ExitCleansUp, Uncounted
  <2>4. Pending'  BY <1>0, <1>1, <2>1, <2>2 DEF Pending
  <2> QED  BY <1>0, <2>1, <2>3, <2>4 DEF CountsOnce, ClaimsOnce
<1>4. CASE UNCHANGED vars
  BY <1>0, <1>4
  DEF vars, CountsOnce, ClaimsOnce, Pending, Uncounted, InHand, Busy
<1> QED  BY <1>0, <1>2, <1>3, <1>4, ThreadKeepsLedgers, ReadKeepsLedgers DEF Next

\* In every reachable state of either driver the strengthened invariant holds.
THEOREM Invariant == Spec => []IInv
<1>1. Init => IInv  BY InitInvariant
<1>2. IInv /\ [Next]_vars => IInv'
  BY TypeStep, WaitQueueStep, FlagIsSeen, LedgerStep DEF IInv, Facts
<1> QED  BY <1>1, <1>2, PTL DEF Spec

\* The variables keep their types: the flag is 0, 1 or 2.
THEOREM TypeCorrect == Spec => []TypeOK
<1>1. IInv => TypeOK  BY DEF IInv
<1> QED  BY <1>1, Invariant, PTL

\* wait_function never sleeps on a flag that is set without a wake-up under way.
THEOREM NoWakeupIsMissed == Spec => []NoMissedWakeup
<1>1. IInv => NoMissedWakeup  BY DEF IInv
<1> QED  BY <1>1, Invariant, PTL

\* No event is lost to the unlocked test of completion_done, however reads race
\* with each other and with the thread.
THEOREM NoEventIsLost == Spec => []NoLostEvent
<1>1. IInv => NoLostEvent
  BY DEF IInv, Pending, Busy, NoLostEvent
<1> QED  BY <1>1, Invariant, PTL

\* wait_function counts no read twice.
THEOREM CountsOnlyReads == Spec => []NoPhantomRead
<1>1. IInv => NoPhantomRead
  <2> SUFFICES ASSUME IInv PROVE NoPhantomRead  OBVIOUS
  <2>1. primitive \in {"wait_queue", "completion"}
    BY PrimitivesAssumption DEF IInv, TypeOK
  <2>2. Cardinality(Busy) \in Nat  BY BusyIsFinite
  <2>3. read_count \in Nat /\ reads \in Nat /\ done \in Nat  BY DEF IInv, TypeOK
  <2>4. primitive = "wait_queue" => read_count <= reads
    BY <2>3, Shares DEF IInv, CountsOnce
  <2>5. primitive = "completion" /\ exit = "loaded" => read_count <= reads
    BY <2>2, <2>3, Shares DEF IInv, ClaimsOnce
  <2> QED  BY <2>1, <2>4, <2>5 DEF NoPhantomRead
<1> QED  BY <1>1, Invariant, PTL

\* wait_function loses no read, but those between its count and its reset of the flag.
THEOREM NoReadIsLost == Spec => []NoLostRead
<1>1. IInv => NoLostRead  BY DEF IInv
<1> QED  BY <1>1, Invariant, PTL

\* Together: no read is counted twice, and each is counted, alone or with others, but those
\* of 09_waitqueue whose flag the thread resets.
THEOREM ReadsCounted == Spec => []ReadsAreCounted
<1> QED  BY NoEventIsLost, NoReadIsLost, CountsOnlyReads, PTL DEF ReadsAreCounted

-----------------------------------------------------------------------------
(* 18_signal *)

Registered == {"waiting", "closing"}

SignalTypeOK ==
  /\ task \in Tasks \cup {NULL}
  /\ app \in [Tasks -> {"free", "started", "opened"} \cup Registered]
  /\ cat \in [Cats -> {"idle", "opened", "tested", "sends", "sent", "oopsed"}]
  /\ target \in [Cats -> Tasks \cup {NULL}]
  /\ overtaken \in [Cats -> BOOLEAN]

\* The task the driver points to has registered and lives.
PointsToLiving == task # NULL => app[task] \in Registered

\* A read on its way has something to follow: the pointer it tested, or the
\* task it took, unless it was overtaken.
OnItsWay ==
  \A c \in Cats : ~overtaken[c] =>
    /\ cat[c] # "oopsed"
    /\ cat[c] = "tested" => task # NULL
    /\ cat[c] = "sends" => target[c] # NULL /\ app[target[c]] \in Registered

\* A read sends to a task, never to NULL.
HasTarget == \A c \in Cats : cat[c] = "sends" => target[c] # NULL

SignalInv == SignalTypeOK /\ task = last /\ PointsToLiving /\ OnItsWay /\ HasTarget

LEMMA SignalInitInvariant == SignalInit => SignalInv
BY DEF SignalInit, SignalInv, SignalTypeOK, PointsToLiving, OnItsWay, HasTarget, Registered

\* While an application only starts or opens nothing is registered or ended.
LEMMA AppBegins ==
  ASSUME SignalInv, NEW t \in Tasks, StartApp(t) \/ OpenDevice(t)
  PROVE  SignalInv'
<1>1. /\ app[t] \notin Registered
      /\ \E to \in {"started", "opened"} : app' = [app EXCEPT ![t] = to]
  BY DEF StartApp, OpenDevice, AppGoes, Registered
<1>2. UNCHANGED <<task, cat, target, last, overtaken>>
  BY DEF StartApp, OpenDevice
<1>3. \A u \in Tasks : app[u] \in Registered => app'[u] \in Registered
  BY <1>1 DEF SignalInv, SignalTypeOK, Registered
<1>4. SignalTypeOK'  BY <1>1, <1>2 DEF SignalInv, SignalTypeOK, Registered
<1>5. PointsToLiving'  BY <1>2, <1>3 DEF SignalInv, SignalTypeOK, PointsToLiving
<1>6. OnItsWay' /\ HasTarget' /\ (task = last)'
  BY <1>2, <1>3 DEF SignalInv, SignalTypeOK, OnItsWay, HasTarget
<1> QED  BY <1>4, <1>5, <1>6 DEF SignalInv

LEMMA AppWaits ==
  ASSUME SignalInv, NEW t \in Tasks, Loop(t) \/ CtrlC(t)
  PROVE  SignalInv'
<1>1. UNCHANGED <<task, cat, target, last, overtaken>>
  BY DEF Loop, CtrlC
<1>2. \/ app' = app
      \/ app[t] \in Registered /\ \E to \in Registered : app' = [app EXCEPT ![t] = to]
  BY DEF Loop, CtrlC, AppGoes, Registered
<1>3. \A u \in Tasks : app[u] \in Registered => app'[u] \in Registered
  BY <1>2 DEF SignalInv, SignalTypeOK, Registered
<1>4. SignalTypeOK'  BY <1>1, <1>2 DEF SignalInv, SignalTypeOK
<1>5. PointsToLiving'  BY <1>1, <1>3 DEF SignalInv, SignalTypeOK, PointsToLiving
<1>6. OnItsWay' /\ HasTarget' /\ (task = last)'
  BY <1>1, <1>3 DEF SignalInv, SignalTypeOK, OnItsWay, HasTarget
<1> QED  BY <1>4, <1>5, <1>6 DEF SignalInv

LEMMA AppRegisters ==
  ASSUME SignalInv, NEW t \in Tasks, Register(t)
  PROVE  SignalInv'
<1>1. /\ app' = [app EXCEPT ![t] = "waiting"] /\ task' = t /\ last' = t
      /\ UNCHANGED <<cat, target, overtaken>>
  BY DEF Register, AppGoes, EtxIoctl
<1>2. \A u \in Tasks : app[u] \in Registered => app'[u] \in Registered
  BY <1>1 DEF SignalInv, SignalTypeOK, Registered
<1>3. t # NULL  BY SignalAssumption
<1>4. SignalTypeOK'  BY <1>1 DEF SignalInv, SignalTypeOK, Registered
<1>5. PointsToLiving'  BY <1>1 DEF SignalInv, SignalTypeOK, PointsToLiving, Registered
<1>6. OnItsWay' /\ HasTarget' /\ (task = last)'
  BY <1>1, <1>2, <1>3 DEF SignalInv, SignalTypeOK, OnItsWay, HasTarget
<1> QED  BY <1>4, <1>5, <1>6 DEF SignalInv

\* A process that ends overtakes the reads that were to signal it.
LEMMA AppEnds ==
  ASSUME SignalInv, NEW t \in Tasks, Ends(t)
  PROVE  SignalInv'
<1>1. /\ app' = [app EXCEPT ![t] = "free"]
      /\ last' = (IF last = t THEN NULL ELSE last)
      /\ UNCHANGED <<cat, target>>
      /\ overtaken' = [c \in Cats |-> \/ overtaken[c]
                                      \/ cat[c] = "tested" /\ last = t
                                      \/ cat[c] = "sends" /\ target[c] = t]
  BY DEF Ends
<1>2. t # NULL /\ task = last  BY SignalAssumption DEF SignalInv
<1>3. task' = (IF task = t THEN NULL ELSE task)
  <2>1. CASE app[t] = "started"
    <3>1. task # t  BY <1>2, <2>1 DEF SignalInv, PointsToLiving, Registered
    <3> QED  BY <2>1, <3>1 DEF Ends
  <2>2. CASE app[t] # "started"
    BY <2>2 DEF Ends, EtxRelease
  <2> QED  BY <2>1, <2>2
<1>4. \A u \in Tasks \ {t} : app'[u] = app[u]
  BY <1>1 DEF SignalInv, SignalTypeOK
<1>5. SignalTypeOK'  BY <1>1, <1>3 DEF SignalInv, SignalTypeOK
<1>6. PointsToLiving'
  BY <1>2, <1>3, <1>4 DEF SignalInv, SignalTypeOK, PointsToLiving
<1>7. OnItsWay'
  <2> SUFFICES ASSUME NEW c \in Cats, ~overtaken'[c]
               PROVE  /\ cat'[c] # "oopsed"
                      /\ cat'[c] = "tested" => task' # NULL
                      /\ cat'[c] = "sends" => target'[c] # NULL /\ app'[target'[c]] \in Registered
    BY DEF OnItsWay
  <2>1. /\ ~overtaken[c]
        /\ cat[c] = "tested" => last # t
        /\ cat[c] = "sends" => target[c] # t
    BY <1>1
  <2>2. /\ cat[c] # "oopsed"
        /\ cat[c] = "tested" => task # NULL
        /\ cat[c] = "sends" => target[c] # NULL /\ app[target[c]] \in Registered
    BY <2>1 DEF SignalInv, OnItsWay
  <2>3. cat[c] = "sends" => target[c] \in Tasks \ {t}
    BY <2>1, <2>2 DEF SignalInv, SignalTypeOK
  <2> QED  BY <1>1, <1>2, <1>3, <1>4, <2>1, <2>2, <2>3
<1>8. HasTarget' /\ (task = last)'
  BY <1>1, <1>2, <1>3 DEF SignalInv, HasTarget
<1> QED  BY <1>5, <1>6, <1>7, <1>8 DEF SignalInv

\* A read begins, tests the pointer, takes it.
LEMMA CatReads ==
  ASSUME SignalInv, NEW c \in Cats, OpenCat(c) \/ TestTask(c) \/ TakeTask(c)
  PROVE  SignalInv'
<1>1. UNCHANGED <<task, app, last>> /\ (task = last)'
  BY DEF OpenCat, TestTask, TakeTask, SignalInv
<1>2. CASE OpenCat(c)
  <2>1. cat' = [cat EXCEPT ![c] = "opened"] /\ UNCHANGED <<target, overtaken>>
    BY <1>2 DEF OpenCat, CatGoes
  <2>2. SignalTypeOK'  BY <1>1, <2>1 DEF SignalInv, SignalTypeOK
  <2>3. OnItsWay' /\ HasTarget' /\ PointsToLiving'
    BY <1>1, <2>1 DEF SignalInv, SignalTypeOK, OnItsWay, HasTarget, PointsToLiving
  <2> QED  BY <1>1, <2>2, <2>3 DEF SignalInv
<1>3. CASE TestTask(c)
  <2>1. /\ cat' = [cat EXCEPT ![c] = IF task # NULL THEN "tested" ELSE "sent"]
        /\ overtaken' = [overtaken EXCEPT ![c] = FALSE] /\ UNCHANGED target
    BY <1>3 DEF TestTask, CatGoes
  <2>2. SignalTypeOK'  BY <1>1, <2>1 DEF SignalInv, SignalTypeOK
  <2>3. OnItsWay' /\ HasTarget' /\ PointsToLiving'
    BY <1>1, <2>1 DEF SignalInv, SignalTypeOK, OnItsWay, HasTarget, PointsToLiving
  <2> QED  BY <1>1, <2>2, <2>3 DEF SignalInv
<1>4. CASE TakeTask(c)
  <2>1. /\ cat[c] = "tested"
        /\ cat' = [cat EXCEPT ![c] = IF task = NULL THEN "oopsed" ELSE "sends"]
        /\ target' = [target EXCEPT ![c] = task] /\ UNCHANGED overtaken
    BY <1>4 DEF TakeTask, CatGoes
  <2>2. SignalTypeOK'  BY <1>1, <2>1 DEF SignalInv, SignalTypeOK
  <2>3. OnItsWay'
    BY <1>1, <2>1 DEF SignalInv, SignalTypeOK, OnItsWay, PointsToLiving
  <2>4. HasTarget' /\ PointsToLiving'
    BY <1>1, <2>1 DEF SignalInv, SignalTypeOK, HasTarget, PointsToLiving
  <2> QED  BY <1>1, <2>2, <2>3, <2>4 DEF SignalInv
<1> QED  BY <1>2, <1>3, <1>4

\* It signals and closes: a cat never is the registered task.
LEMMA CatEnds ==
  ASSUME SignalInv, NEW c \in Cats, SendSignal(c) \/ CloseCat(c)
  PROVE  SignalInv'
<1>1. UNCHANGED <<app, last, overtaken>>  BY DEF SendSignal, CloseCat
<1>2. UNCHANGED task
  <2>1. c \notin Tasks  BY SignalAssumption
  <2> QED  BY <2>1 DEF SendSignal, CloseCat, EtxRelease, SignalInv, SignalTypeOK
<1>3. /\ \E to \in {"idle", "sent", "oopsed"} :
           /\ cat' = [cat EXCEPT ![c] = to]
           /\ to = "oopsed" => cat[c] = "sends" /\ app[target[c]] = "free"
      /\ target' = [target EXCEPT ![c] = NULL] \/ UNCHANGED target
  BY DEF SendSignal, CloseCat, CatGoes
<1>4. SignalTypeOK'  BY <1>1, <1>2, <1>3 DEF SignalInv, SignalTypeOK
<1>5. OnItsWay'
  BY <1>1, <1>2, <1>3 DEF SignalInv, SignalTypeOK, OnItsWay, Registered
<1>6. HasTarget' /\ PointsToLiving' /\ (task = last)'
  BY <1>1, <1>2, <1>3 DEF SignalInv, SignalTypeOK, HasTarget, PointsToLiving
<1> QED  BY <1>4, <1>5, <1>6 DEF SignalInv

LEMMA SignalStepInvariant == SignalInv /\ [SignalNext]_signalVars => SignalInv'
<1> SUFFICES ASSUME SignalInv, [SignalNext]_signalVars PROVE SignalInv'  OBVIOUS
<1>1. ASSUME NEW t \in Tasks,
             \/ StartApp(t) \/ OpenDevice(t) \/ Register(t) \/ Loop(t)
             \/ CloseDevice(t) \/ CtrlC(t) \/ CtrlCAgain(t)
      PROVE  SignalInv'
  BY <1>1, AppBegins, AppWaits, AppRegisters, AppEnds DEF CloseDevice, CtrlCAgain
<1>2. ASSUME NEW c \in Cats,
             OpenCat(c) \/ TestTask(c) \/ TakeTask(c) \/ SendSignal(c) \/ CloseCat(c)
      PROVE  SignalInv'
  BY <1>2, CatReads, CatEnds
<1>3. CASE UNCHANGED signalVars
  BY <1>3 DEF signalVars, SignalInv, SignalTypeOK, PointsToLiving, OnItsWay, HasTarget
<1> QED  BY <1>1, <1>2, <1>3 DEF SignalNext

\* The strengthened invariant of registration and delivery.
THEOREM SignalInvariant == SignalSpec => []SignalInv
<1> QED  BY SignalInitInvariant, SignalStepInvariant, PTL DEF SignalSpec

\* Whoever opens, registers, closes or is killed, the read signals the last task
\* to register, and a stale pointer is followed only if that task ended between
\* the test of the pointer and its use (18_signal, etx_read).
THEOREM LastIsSignalled == SignalSpec => []SignalsTheLast
<1>1. SignalInv => SignalsTheLast  BY DEF SignalInv, OnItsWay, SignalsTheLast, Registered
<1> QED  BY <1>1, SignalInvariant, PTL
-----------------------------------------------------------------------------
(* 34_poll, 35_select, 36_epoll *)

\* A handler that has set a flag has yet to wake the queue.
WakeIsDue == \E u \in Users : user[u] \in {"store_wake", "show_wake"}

\* The poller sleeps, or is about to, in spite of a flag.
Overlooks(p) ==
  \/ poller[p] = "test_out" /\ mask[p] = {} /\ can_read
  \/ poller[p] = "sleep" /\ (can_read \/ can_write)

Watched == \A p \in Pollers : Overlooks(p) /\ p \notin triggered => WakeIsDue

\* While an application that runs epoll serves the device, the device stays on the
\* ready list.
OnReadyList == \A p \in Pollers :
  runs[p] = "epoll" /\ poller[p] \in {"read", "write"} => p \in triggered

\* The users between the value and its flag.
Stored == {u \in Users : user[u] = "stored"}

Counted == Cardinality(Stored) <= stores /\ seen <= stores /\ swallowed <= stores

PollInv == PollTypeOK /\ Watched /\ OnReadyList /\ Counted

\* The places of a poller and the events it may find.
Places == {"start", "test_in", "clear_in", "test_out", "clear_out", "sleep", "read", "write"}
Events == {"POLLIN", "POLLOUT"}

\* The users who have stored a value are finitely many.
LEMMA StoredIsFinite == IsFiniteSet(Stored) /\ Cardinality(Stored) \in Nat
<1>1. Stored \subseteq Users  BY DEF Stored
<1>2. IsFiniteSet(Stored)  BY <1>1, UsersAssumption, FS_Subset
<1> QED  BY <1>2, FS_CardinalityType

\* At first no flag is set.
LEMMA PollInitInvariant == PollInit => PollInv
<1> SUFFICES ASSUME PollInit PROVE PollInv  OBVIOUS
<1>1. PollTypeOK
  <2>1. poller \in [Pollers -> Places] /\ mask \in [Pollers -> SUBSET Events]
    BY DEF PollInit, Places, Events
  <2>2. user \in [Users -> {"idle", "stored", "store_wake", "show_wake"}]  BY DEF PollInit
  <2>3. /\ can_read \in BOOLEAN /\ can_write \in BOOLEAN
        /\ triggered \subseteq Pollers /\ added \subseteq {p \in Pollers : runs[p] = "epoll"}
    BY DEF PollInit
  <2>4. /\ etx_value \in 0..MaxStores /\ stores \in 0..MaxStores /\ shows \in 0..MaxShows
        /\ seen \in 0..MaxStores /\ swallowed \in 0..MaxStores
    BY BoundsAssumption DEF PollInit
  <2> QED  BY <2>1, <2>2, <2>3, <2>4, Zenon DEF PollInit, PollTypeOK, Places, Events
<1>2. Watched /\ OnReadyList  BY DEF PollInit, Watched, Overlooks, OnReadyList
<1>3. Counted
  <2>1. Stored = {}  BY DEF PollInit, Stored
  <2> QED  BY <2>1, FS_EmptySet DEF PollInit, Counted
<1> QED  BY <1>1, <1>2, <1>3 DEF PollInv

\* A flag that is set comes with a handler that is about to wake the queue; the
\* handler's wake-up reaches every poller that could overlook the flag.
LEMMA UserKeeps ==
  ASSUME PollInv, NEW u \in Users,
         SysfsStoreValue(u) \/ SysfsStoreFlag(u) \/ SysfsShow(u) \/ SysfsWakes(u)
  PROVE  PollTypeOK' /\ Watched' /\ OnReadyList'
<1> USE DEF flags, pollerState, history, UserGoto
<1>1. PollTypeOK'
  <2>1. user' \in [Users -> {"idle", "stored", "store_wake", "show_wake"}]
    BY DEF PollInv, PollTypeOK, SysfsStoreValue, SysfsStoreFlag, SysfsShow, SysfsWakes
  <2>2. stores' \in 0..MaxStores /\ shows' \in 0..MaxShows /\ etx_value' \in 0..MaxStores
    BY BoundsAssumption
       DEF PollInv, PollTypeOK, SysfsStoreValue, SysfsStoreFlag, SysfsShow, SysfsWakes
  <2>3. can_read' \in BOOLEAN /\ can_write' \in BOOLEAN /\ seen' = seen /\ swallowed' = swallowed
    BY DEF PollInv, PollTypeOK, SysfsStoreValue, SysfsStoreFlag, SysfsShow, SysfsWakes
  <2>4. triggered' \subseteq Pollers /\ runs' = runs /\ poller' = poller /\ mask' = mask
        /\ added' = added
    BY DEF PollInv, PollTypeOK, SysfsStoreValue, SysfsStoreFlag, SysfsShow, SysfsWakes,
           WakeUp, Queued
  <2> QED  BY <2>1, <2>2, <2>3, <2>4, Zenon DEF PollInv, PollTypeOK
<1>2. OnReadyList'
  BY DEF PollInv, OnReadyList, SysfsStoreValue, SysfsStoreFlag, SysfsShow, SysfsWakes, WakeUp
<1>3. Watched'
  <2> SUFFICES ASSUME NEW p \in Pollers, Overlooks(p)', p \notin triggered' PROVE WakeIsDue'
    BY DEF Watched
  <2> USE DEF PollInv, PollTypeOK
  <2>1. CASE SysfsStoreValue(u)
    <3>1. Overlooks(p) /\ p \notin triggered  BY <2>1 DEF SysfsStoreValue, Overlooks
    <3>2. PICK w \in Users : user[w] \in {"store_wake", "show_wake"}
      BY <3>1 DEF Watched, WakeIsDue
    <3>3. user'[w] = user[w]  BY <2>1, <3>2 DEF SysfsStoreValue
    <3> QED  BY <3>2, <3>3 DEF WakeIsDue
  <2>2. CASE SysfsStoreFlag(u)
    <3>1. user'[u] = "store_wake"  BY <2>2 DEF SysfsStoreFlag
    <3> QED  BY <3>1 DEF WakeIsDue
  <2>3. CASE SysfsShow(u)
    <3>1. user'[u] = "show_wake"  BY <2>3 DEF SysfsShow
    <3> QED  BY <3>1 DEF WakeIsDue
  <2>4. CASE SysfsWakes(u)
    <3>1. p \in Queued  BY <2>4 DEF SysfsWakes, Overlooks, Queued
    <3> QED  BY <2>4, <3>1 DEF SysfsWakes, WakeUp
  <2> QED  BY <2>1, <2>2, <2>3, <2>4
<1> QED  BY <1>1, <1>2, <1>3

\* A user who has stored a value was counted when it did.
LEMMA UserCounts ==
  ASSUME PollInv, NEW u \in Users,
         SysfsStoreValue(u) \/ SysfsStoreFlag(u) \/ SysfsShow(u) \/ SysfsWakes(u)
  PROVE  Counted'
<1> USE DEF flags, pollerState, history, UserGoto
<1>1. /\ IsFiniteSet(Stored) /\ Cardinality(Stored) \in Nat
      /\ stores \in Nat /\ seen \in Nat /\ swallowed \in Nat
      /\ Cardinality(Stored) <= stores /\ seen <= stores /\ swallowed <= stores
  BY StoredIsFinite, BoundsAssumption DEF PollInv, PollTypeOK, Counted
<1>2. user \in [Users -> {"idle", "stored", "store_wake", "show_wake"}]
  BY DEF PollInv, PollTypeOK
<1>3. CASE SysfsStoreValue(u)
  <2>1. Stored' = Stored \cup {u} /\ u \notin Stored
    BY <1>2, <1>3 DEF SysfsStoreValue, Stored
  <2>2. Cardinality(Stored') = Cardinality(Stored) + 1  BY <1>1, <2>1, FS_AddElement
  <2>3. stores' = stores + 1 /\ seen' = seen /\ swallowed' = swallowed
    BY <1>3 DEF SysfsStoreValue
  <2> QED  BY <1>1, <2>2, <2>3 DEF Counted
<1>4. CASE SysfsStoreFlag(u)
  <2>1. Stored' = Stored \ {u} /\ u \in Stored
    BY <1>2, <1>4 DEF SysfsStoreFlag, Stored
  <2>2. Cardinality(Stored') = Cardinality(Stored) - 1  BY <1>1, <2>1, FS_RemoveElement
  <2>3. stores' = stores /\ seen' = seen /\ swallowed' = swallowed
    BY <1>4 DEF SysfsStoreFlag
  <2> QED  BY <1>1, <2>2, <2>3 DEF Counted
<1>5. CASE SysfsShow(u) \/ SysfsWakes(u)
  <2>1. Stored' = Stored  BY <1>2, <1>5 DEF SysfsShow, SysfsWakes, Stored
  <2>2. stores' = stores /\ seen' = seen /\ swallowed' = swallowed
    BY <1>5 DEF SysfsShow, SysfsWakes
  <2> QED  BY <1>1, <2>1, <2>2 DEF Counted
<1> QED  BY <1>3, <1>4, <1>5

\* A poller's step leaves the users alone, and where it leaves a flag set, it does so
\* for the other pollers as it found it.
LEMMA OthersWatched ==
  ASSUME PollInv, NEW p \in Pollers, user' = user,
         can_read' => can_read, can_write' => can_write,
         \A q \in Pollers \ {p} : poller'[q] = poller[q] /\ mask'[q] = mask[q]
                                  /\ (q \in triggered => q \in triggered'),
         Overlooks(p)' /\ p \notin triggered' => WakeIsDue
  PROVE  Watched'
<1> SUFFICES ASSUME NEW q \in Pollers, Overlooks(q)', q \notin triggered' PROVE WakeIsDue'
  BY DEF Watched
<1>1. WakeIsDue
  <2>1. CASE q = p  BY <2>1
  <2>2. CASE q # p
    <3>1. Overlooks(q) /\ q \notin triggered  BY <2>2 DEF Overlooks
    <3> QED  BY <3>1 DEF PollInv, Watched
  <2> QED  BY <2>1, <2>2
<1> QED  BY <1>1 DEF WakeIsDue

\* What etx_poll and the system calls do with one poller.
LEMMA PollerTypes ==
  ASSUME PollInv, NEW p \in Pollers, PollerStep(p) \/ Timeout(p)
  PROVE  PollTypeOK'
<1> USE DEF flags, history, PollerGoto
<1>0. PollTypeOK  BY DEF PollInv
<1>1. runs' = runs /\ user' = user
  BY DEF PollerStep, PollWait, TestIn, ClearIn, TestOut, ClearOut, Wakes, Read, Write, Timeout
<1>2. poller' \in [Pollers -> Places]
  <2>1. poller \in [Pollers -> Places]  BY <1>0 DEF PollTypeOK, Places
  <2>2. ASSUME NEW to \in Places, poller' = [poller EXCEPT ![p] = to]
        PROVE  poller' \in [Pollers -> Places]
    BY <2>1, <2>2
  <2>3. \E to \in Places : poller' = [poller EXCEPT ![p] = to]
    BY DEF PollerStep, PollWait, TestIn, ClearIn, TestOut, ClearOut, Wakes, Read, Write, Timeout,
           Returned, Outcome, Again, Places
  <2> QED  BY <2>2, <2>3
<1>3. mask' \in [Pollers -> SUBSET Events]
  <2>1. mask \in [Pollers -> SUBSET Events]  BY <1>0 DEF PollTypeOK, Events
  <2>2. \/ mask' = mask \/ mask' = [mask EXCEPT ![p] = {}]
        \/ mask' = [mask EXCEPT ![p] = mask[p] \cup {"POLLIN"}]
        \/ mask' = [mask EXCEPT ![p] = mask[p] \cup {"POLLOUT"}]
    BY DEF PollerStep, PollWait, TestIn, ClearIn, TestOut, ClearOut, Wakes, Read, Write, Timeout
  <2> QED  BY <2>1, <2>2 DEF Events
<1>4. triggered' \subseteq Pollers /\ added' \subseteq {q \in Pollers : runs[q] = "epoll"}
  BY <1>0 DEF PollTypeOK, PollerStep, PollWait, TestIn, ClearIn, TestOut, ClearOut, Wakes, Read,
           Write, Timeout, Returned
<1>5. can_read' \in BOOLEAN /\ can_write' \in BOOLEAN
  BY <1>0 DEF PollTypeOK, PollerStep, PollWait, TestIn, ClearIn, TestOut, ClearOut, Wakes, Read,
           Write, Timeout
<1>6. stores' = stores /\ shows' = shows /\ etx_value' \in 0..MaxStores
  BY <1>0, BoundsAssumption
     DEF PollTypeOK, PollerStep, PollWait, TestIn, ClearIn, TestOut, ClearOut, Wakes, Read,
         Write, Timeout
<1>7. seen' \in 0..MaxStores /\ swallowed' \in 0..MaxStores
  <2>1. Announced \in 0..MaxStores
    BY <1>0, StoredIsFinite, BoundsAssumption
       DEF PollInv, PollTypeOK, Counted, Announced, Stored
  <2>2. seen' \in {seen, stores} /\ swallowed' \in {swallowed, Announced}
    BY DEF PollerStep, PollWait, TestIn, ClearIn, TestOut, ClearOut, Wakes, Read, Write, Timeout
  <2> QED  BY <1>0, <2>1, <2>2 DEF PollTypeOK
<1> QED
  BY <1>0, <1>1, <1>2, <1>3, <1>4, <1>5, <1>6, <1>7, Zenon DEF PollTypeOK, Places, Events

\* A poller reads, or takes with EPOLL_CTL_ADD, what has been stored by then.
LEMMA PollerCounts ==
  ASSUME PollInv, NEW p \in Pollers, PollerStep(p) \/ Timeout(p)
  PROVE  Counted'
<1> USE DEF flags, history
<1>1. /\ Cardinality(Stored) \in Nat /\ stores \in Nat
      /\ Cardinality(Stored) <= stores /\ seen <= stores /\ swallowed <= stores
  BY StoredIsFinite, BoundsAssumption DEF PollInv, PollTypeOK, Counted
<1>2. Stored' = Stored /\ stores' = stores
  BY DEF PollerStep, PollWait, TestIn, ClearIn, TestOut, ClearOut, Wakes, Read, Write, Timeout,
         Stored
<1>3. seen' \in {seen, stores} /\ swallowed' \in {swallowed, stores - Cardinality(Stored)}
  BY DEF PollerStep, PollWait, TestIn, ClearIn, TestOut, ClearOut, Wakes, Read, Write, Timeout,
         Announced, Stored
<1> QED  BY <1>1, <1>2, <1>3 DEF Counted

\* A device epoll reports goes back on the ready list, and stays there until the next
\* look at it.
LEMMA ReadyListKept ==
  ASSUME PollInv, NEW p \in Pollers, PollerStep(p) \/ Timeout(p)
  PROVE  OnReadyList'
<1> SUFFICES ASSUME NEW q \in Pollers, runs'[q] = "epoll", poller'[q] \in {"read", "write"}
             PROVE  q \in triggered'
  BY DEF OnReadyList
<1> USE DEF flags, history, PollerGoto, PollInv, PollTypeOK
<1>1. runs' = runs
  BY DEF PollerStep, PollWait, TestIn, ClearIn, TestOut, ClearOut, Wakes, Read, Write, Timeout
<1>2. CASE q # p
  <2>1. poller'[q] = poller[q]
    BY <1>2 DEF PollerStep, PollWait, TestIn, ClearIn, TestOut, ClearOut, Wakes, Read, Write,
           Timeout, Returned
  <2>2. q \in triggered  BY <1>1, <2>1 DEF OnReadyList
  <2> QED
    BY <1>2, <2>2 DEF PollerStep, PollWait, TestIn, ClearIn, TestOut, ClearOut, Wakes, Read, Write,
           Timeout, Returned
<1>3. CASE q = p
  <2>1. CASE TestOut(p)
    BY <1>1, <1>3, <2>1 DEF TestOut, Returned, Outcome
  <2>2. CASE ClearOut(p)
    <3>1. mask'[p] # {}  BY <2>2 DEF ClearOut
    <3> QED  BY <1>1, <1>3, <2>2, <3>1 DEF ClearOut, Returned
  <2>3. CASE Read(p) \/ Write(p)
    <3>1. poller[p] = "read" /\ triggered' = triggered
      BY <1>1, <1>3, <2>3 DEF Read, Write, Again
    <3> QED  BY <1>1, <1>3, <3>1 DEF OnReadyList
  <2>4. CASE PollWait(p) \/ TestIn(p) \/ ClearIn(p) \/ Wakes(p) \/ Timeout(p)
    BY <1>3, <2>4 DEF PollWait, TestIn, ClearIn, Wakes, Timeout
  <2> QED  BY <2>1, <2>2, <2>3, <2>4 DEF PollerStep
<1> QED  BY <1>2, <1>3

\* A poller goes to sleep on what it has just seen, and sleeps on only where it overlooked
\* nothing before.
LEMMA PollerWatched ==
  ASSUME PollInv, NEW p \in Pollers, PollerStep(p) \/ Timeout(p)
  PROVE  Watched'
<1> USE DEF flags, history, PollerGoto, PollTypeOK
<1>0. PollTypeOK  BY DEF PollInv
<1>1. user' = user /\ (can_read' => can_read) /\ (can_write' => can_write)
  BY DEF PollerStep, PollWait, TestIn, ClearIn, TestOut, ClearOut, Wakes, Read, Write, Timeout
<1>2. \A q \in Pollers \ {p} : poller'[q] = poller[q] /\ mask'[q] = mask[q]
                               /\ (q \in triggered => q \in triggered')
  BY <1>0 DEF PollerStep, PollWait, TestIn, ClearIn, TestOut, ClearOut, Wakes, Read, Write,
         Timeout, Returned
<1>3. ASSUME Overlooks(p)', p \notin triggered' PROVE WakeIsDue
  <2>1. CASE TestIn(p)  BY <1>0, <1>3, <2>1 DEF TestIn, Overlooks
  <2>2. CASE ClearIn(p)  BY <1>0, <1>3, <2>2 DEF ClearIn, Overlooks
  <2>3. CASE TestOut(p)
    <3>1. /\ poller'[p] = "sleep" /\ ~can_write /\ can_read /\ poller[p] = "test_out"
          /\ p \notin triggered
      BY <1>0, <1>3, <2>3 DEF TestOut, Overlooks, Returned, Outcome
    <3>2. mask[p] = {}
      <4>1. poller'[p] = IF Adding(p) THEN "sleep" ELSE Outcome(mask[p])
        BY <1>0, <2>3, <3>1 DEF TestOut, Returned
      <4>2. mask[p] # {} => ~Adding(p)
        BY <1>3, <2>3, <3>1 DEF TestOut, Returned, Adding
      <4>3. mask[p] \in SUBSET {"POLLIN", "POLLOUT"}  BY <1>0
      <4> QED  BY <3>1, <4>1, <4>2, <4>3 DEF Outcome
    <3> QED  BY <3>1, <3>2 DEF PollInv, Watched, Overlooks
  <2>4. CASE ClearOut(p)
    <3>1. mask'[p] # {} /\ mask'[p] \in SUBSET {"POLLIN", "POLLOUT"}
      BY <1>0, <2>4 DEF ClearOut
    <3>2. poller'[p] = IF Adding(p) THEN "sleep" ELSE Outcome(mask'[p])
      BY <1>0, <2>4 DEF ClearOut, Returned
    <3>3. ~Adding(p)  BY <1>3, <2>4, <3>1 DEF ClearOut, Returned, Adding
    <3>4. poller'[p] = "sleep"  BY <1>0, <1>3, <3>2, <3>3 DEF Overlooks, Outcome
    <3> QED  BY <3>1, <3>2, <3>3, <3>4 DEF Outcome
  <2>5. CASE PollWait(p) \/ Wakes(p)  BY <1>0, <1>3, <2>5 DEF PollWait, Wakes, Overlooks
  <2>6. CASE Timeout(p)
    <3>1. Overlooks(p) /\ p \notin triggered  BY <1>0, <1>3, <2>6 DEF Timeout, Overlooks
    <3> QED  BY <3>1 DEF PollInv, Watched
  <2>7. CASE Read(p) \/ Write(p)
    <3>1. poller[p] \in {"read", "write"} /\ poller'[p] = "sleep" /\ triggered' = triggered
      BY <1>0, <1>3, <2>7 DEF Read, Write, Again, Overlooks
    <3>2. runs[p] = "epoll"  BY <1>0, <2>7, <3>1 DEF Read, Write, Again
    <3> QED  BY <1>3, <3>1, <3>2 DEF PollInv, OnReadyList
  <2> QED  BY <2>1, <2>2, <2>3, <2>4, <2>5, <2>6, <2>7 DEF PollerStep
<1> QED  BY <1>1, <1>2, <1>3, OthersWatched

\* Each step, of a user or of a poller, keeps the invariant.
LEMMA PollNextInvariant == PollInv /\ [PollNext]_pollVars => PollInv'
<1> SUFFICES ASSUME PollInv, [PollNext]_pollVars PROVE PollInv'  OBVIOUS
<1>1. ASSUME NEW u \in Users, SysfsStoreValue(u) \/ SysfsShow(u) \/ UserStep(u) PROVE PollInv'
  BY <1>1, UserKeeps, UserCounts DEF UserStep, PollInv
<1>2. ASSUME NEW p \in Pollers, PollerStep(p) \/ Timeout(p) PROVE PollInv'
  BY <1>2, PollerTypes, PollerCounts, ReadyListKept, PollerWatched DEF PollInv
<1>3. CASE UNCHANGED pollVars
  BY <1>3 DEF pollVars, PollInv, PollTypeOK, Watched, Overlooks, WakeIsDue, OnReadyList, Counted,
              Stored
<1> QED  BY <1>1, <1>2, <1>3 DEF PollNext

\* PollInv holds in every reachable state.
THEOREM PollIsSound == PollSpec => []PollInv
<1> QED  BY PollInitInvariant, PollNextInvariant, PTL DEF PollSpec

\* sysfs_show, sysfs_store and etx_poll share their flags without a lock; still, for any
\* pollers and any finite set of users, none sleeps while a flag is set, unless a handler
\* is about to wake it: poll_wait comes before the tests, wake_up behind the flag.
THEOREM NoPollerSleepsOn == PollSpec => []PollersAreWoken
<1>1. PollInv => PollersAreWoken
  BY DEF PollInv, Watched, Overlooks, WakeIsDue, PollersAreWoken
<1> QED  BY <1>1, PollIsSound, PTL
==============================================================================

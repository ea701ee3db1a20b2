----------------------- MODULE CountingThreads_proofs -----------------------
(***************************************************************************)
(* For any number of threads, any word and sequence width and each of the  *)
(* five drivers: the threads exclude each other where they must, lose no   *)
(* increment, read only committed values, and are gone when                *)
(* etx_driver_exit destroys the device.                                    *)
(*                                                                         *)
(* For any number of CPUs, any debounce time and any width of jiffies:     *)
(* valid edges of the button are a debounce period apart over every wrap,  *)
(* and as long as no two softirqs overlap each run of the function toggles *)
(* and the LED follows.                                                    *)
(***************************************************************************)
EXTENDS CountingThreads, GpioLed, FiniteSets, FiniteSetTheorems, TLAPS

-----------------------------------------------------------------------------
(* The threads: the inductive invariant *)

\* Which labels a thread reaches depends on the driver and on its role.
RoleInv ==
  \A t \in Threads :
    /\ pc[t] \in Critical => Writes(t)
    /\ pc[t] = "print" => Counts
    /\ pc[t] \in {"read", "retry", "show", "runlock"} =>
         ~Writes(t) /\ driver \in {"rwlock", "seqlock"}
    /\ pc[t] = "log" => driver = "atomic"
    /\ pc[t] = "retry" => driver = "seqlock"
    /\ pc[t] = "runlock" => driver = "rwlock"

\* The lock is held exactly by the thread inside its critical section ...
OwnerInv == \A t \in Threads : pc[t] \in Critical <=> owner = t

\* ... or by readers, but never by both.
Reading(t) == driver = "rwlock" /\ pc[t] \in {"read", "show", "runlock"}
ReadersInv ==
  /\ \A t \in Threads : t \in readers <=> Reading(t)
  /\ owner # Nobody => readers = {}

\* Between its load and its store a thread holds the current value.
FreshInv == \A t \in Threads : pc[t] = "store" => value[t] = etx_global_variable

\* The counter is one ahead of the log exactly when a line is due.
Due == \E t \in Threads : pc[t] = "print"
LogInv == Counts => /\ printed = lines
                    /\ etx_global_variable = IF Due THEN (lines + 1) % W ELSE lines

\* Without a lock it is ahead by as many counts as there are lines due.
Owed    == {t \in Threads : pc[t] = "log"}
OwedInv == driver = "atomic" => Log!Ahead(etx_global_variable, lines) = Cardinality(Owed)

\* kthread_stop has returned for a thread only after its function did.
JoinInv == \A t \in Threads : t <= joined => pc[t] = "done"
StopInv == \A t \in Threads : pc[t] = "none" <=> t > created

\* The sequence number is odd exactly during a write.
ParityInv == driver = "seqlock" => (seq % 2 = 1 <=> owner # Nobody)

\* How far the sequence number has moved on since r's attempt began ...
Moved(r) == IF owner # Nobody THEN 2 * overtaken[r] - 1 ELSE 2 * overtaken[r]

\* ... from a, for a counter that comes round at S ...
Turned(a, m) == IF a + m < S THEN a + m ELSE a + m - S

\* ... which is less than a whole turn of the counter.
AttemptOK(r) ==
  /\ 2 * overtaken[r] < S
  /\ overtaken[r] = 0 => owner = Nobody /\ etx_global_variable = snapshot[r]
  /\ seq = Turned(seq_no[r], Moved(r))
  /\ pc[r] = "retry" /\ overtaken[r] = 0 => value[r] = snapshot[r]

AttemptInv == \A r \in Threads : Attempting(r) => AttemptOK(r)

\* Under the rwlock the variable keeps its value while it is read.
HeldInv == \A r \in Threads : r \in readers => etx_global_variable = snapshot[r]

LockInv == RoleInv /\ OwnerInv /\ ReadersInv
SeqInv  == ParityInv /\ AttemptInv
DataInv == FreshInv /\ LogInv /\ HeldInv /\ CleanRead
ExitInv == JoinInv /\ StopInv
IInv    == TypeOK /\ LockInv /\ SeqInv /\ DataInv /\ OwedInv /\ ExitInv

USE ThreadsAssumption DEF Threads, Nobody, Word

\* Arithmetic of the wrapping counter, and of the sequence counter.
LEMMA WordStep == \A n \in 0..(W - 1) : (n + 1) % W \in 0..(W - 1)
  BY WordAssumption

LEMMA AheadStep ==
  \A n, m \in 0..(W - 1) :
    /\ Log!Ahead(n, m) \in 0..(W - 1)
    /\ Log!Ahead(n, m) < W - 1 => Log!Ahead((n + 1) % W, m) = Log!Ahead(n, m) + 1
    /\ Log!Ahead(n, m) > 0 => Log!Ahead(n, (m + 1) % W) = Log!Ahead(n, m) - 1
    /\ W > 1 => Log!Ahead((m + 1) % W, m) = 1
<1> SUFFICES ASSUME NEW n \in 0..(W - 1), NEW m \in 0..(W - 1)
             PROVE  /\ Log!Ahead(n, m) \in 0..(W - 1)
                    /\ Log!Ahead(n, m) < W - 1 => Log!Ahead((n + 1) % W, m) = Log!Ahead(n, m) + 1
                    /\ Log!Ahead(n, m) > 0 => Log!Ahead(n, (m + 1) % W) = Log!Ahead(n, m) - 1
                    /\ W > 1 => Log!Ahead((m + 1) % W, m) = 1
  OBVIOUS
<1>0. W \in Nat /\ W > 0
  BY WordAssumption
<1>1. ASSUME NEW k \in 0..(W - 1) PROVE (k + 1) % W = IF k + 1 = W THEN 0 ELSE k + 1
  <2>1. CASE k + 1 = W  BY <1>0, <2>1
  <2>2. CASE k + 1 < W  BY <1>0, <2>2
  <2> QED BY <1>0, <2>1, <2>2
<1>2. /\ (n + 1) % W = IF n + 1 = W THEN 0 ELSE n + 1
      /\ (m + 1) % W = IF m + 1 = W THEN 0 ELSE m + 1
  BY <1>1
<1> QED BY <1>0, <1>2 DEF Log!Ahead

LEMMA SeqArith ==
  \A n \in 0..(S - 1) :
    /\ (n + 1) % S = IF n + 1 = S THEN 0 ELSE n + 1
    /\ (n + 1) % S \in 0..(S - 1)
    /\ ((n + 1) % S) % 2 = 1 <=> n % 2 = 0
<1> SUFFICES ASSUME NEW n \in 0..(S - 1)
             PROVE  /\ (n + 1) % S = IF n + 1 = S THEN 0 ELSE n + 1
                    /\ (n + 1) % S \in 0..(S - 1)
                    /\ ((n + 1) % S) % 2 = 1 <=> n % 2 = 0
  OBVIOUS
<1> USE SequenceAssumption
<1>1. CASE n + 1 = S
  <2>1. (n + 1) % S = 0 BY <1>1
  <2> QED BY <1>1, <2>1
<1>2. CASE n + 1 < S
  <2>1. (n + 1) % S = n + 1 BY <1>2
  <2> QED BY <1>2, <2>1
<1> QED BY <1>1, <1>2

LEMMA NextSeqType == TypeOK => NextSeq \in 0..(S - 1)
  BY SeqArith DEF NextSeq, TypeOK

LEMMA OvertakeType == TypeOK /\ Overtake => overtaken' \in [Threads -> Nat]
<1> SUFFICES ASSUME overtaken \in [Threads -> Nat], Overtake
             PROVE  overtaken' \in [Threads -> Nat]
  BY DEF TypeOK
<1>1. \A r \in Threads :
        (IF Attempting(r) THEN overtaken[r] + 1 ELSE overtaken[r]) \in Nat
  <2> TAKE r \in Threads
  <2>1. overtaken[r] \in Nat
    OBVIOUS
  <2> QED BY <2>1
<1> QED BY <1>1, Zenon DEF Overtake

-----------------------------------------------------------------------------
LEMMA TypeInit == Init => TypeOK
<1> SUFFICES ASSUME Init PROVE TypeOK
  OBVIOUS
<1> USE DEF Init
<1>1. pc \in [Threads -> Labels] BY DEF Labels
<1>2. 0 \in 0..(W - 1) /\ 0 \in 0..(S - 1) /\ 0 \in Nat
  BY WordAssumption, SequenceAssumption
<1>3. /\ value \in [Threads -> 0..(W - 1)] /\ snapshot \in [Threads -> 0..(W - 1)]
      /\ seq_no \in [Threads -> 0..(S - 1)] /\ overtaken \in [Threads -> Nat]
  BY <1>2
<1>4. owner \in Threads \cup {Nobody} /\ readers \in SUBSET Threads /\ shouldStop \in SUBSET Threads
  OBVIOUS
<1>5. created \in 0..N /\ joined \in 0..N OBVIOUS
<1> QED BY <1>1, <1>2, <1>3, <1>4, <1>5, Zenon DEF TypeOK

LEMMA InitIInv == Init => IInv
<1> SUFFICES ASSUME Init PROVE IInv
  OBVIOUS
<1>1. TypeOK BY TypeInit
<1> USE DEF Init
<1>2. LockInv BY DEF LockInv, RoleInv, OwnerInv, ReadersInv, Reading, Critical
<1>3. SeqInv  BY DEF SeqInv, ParityInv, AttemptInv, AttemptOK, Attempting
<1>4. DataInv BY DEF DataInv, FreshInv, LogInv, Due, HeldInv, CleanRead
<1>5. ExitInv BY DEF ExitInv, JoinInv, StopInv
<1>6. OwedInv
  <2>1. Owed = {} BY DEF Owed
  <2> QED BY <2>1, FS_EmptySet DEF OwedInv, Log!Ahead
<1> QED BY <1>1, <1>2, <1>3, <1>4, <1>5, <1>6 DEF IInv

LEMMA TypeStep == TypeOK /\ [Next]_vars => TypeOK'
<1> SUFFICES ASSUME TypeOK, [Next]_vars PROVE TypeOK'
  OBVIOUS
<1>0. created \in 0..N /\ joined \in 0..N /\ pc \in [Threads -> Labels]
  BY DEF TypeOK
<1>1. CASE KthreadRun
  <2>1. created' \in 0..N /\ pc' \in [Threads -> Labels]
    BY <1>0, <1>1 DEF KthreadRun, Labels
  <2> QED BY <1>1, <2>1, Zenon DEF KthreadRun, TypeOK, Lock, Data, Past
<1>2. CASE Rmmod
  BY <1>2 DEF Rmmod, TypeOK, Lock, Data, Past
<1>3. CASE KthreadStop
  <2>1. joined + 1 \in Threads
    BY <1>0, <1>3 DEF KthreadStop
  <2> QED BY <1>3, <2>1, Zenon DEF KthreadStop, TypeOK, Lock, Data, Past
<1>4. CASE KthreadJoin
  <2>1. joined' \in 0..N
    BY <1>0, <1>4 DEF KthreadJoin
  <2> QED BY <1>4, <2>1, Zenon DEF KthreadJoin, TypeOK, Lock, Data, Past
<1>5. ASSUME NEW t \in Threads, Thread(t) PROVE TypeOK'
  <2> USE DEF TypeOK, Labels, Goto, Module, Lock, Data, Past
  <2>1. CASE Loop(t)         BY <2>1 DEF Loop
  <2>2. CASE Msleep(t)       BY <2>2 DEF Msleep
  <2>3. CASE WriteLock(t)
    <3>1. overtaken' \in [Threads -> Nat]
      BY <2>3, OvertakeType DEF WriteLock
    <3>2. pc' \in [Threads -> Labels] /\ owner' \in Threads \cup {Nobody} /\ seq' \in 0..(S - 1)
      BY <2>3, NextSeqType DEF WriteLock
    <3> QED BY <2>3, <3>1, <3>2, Zenon DEF WriteLock
  <2>4. CASE Load(t)         BY <2>4 DEF Load
  <2>5. CASE Store(t)        BY <2>5, WordStep DEF Store
  <2>6. CASE PrInfo(t)       BY <2>6, WordStep DEF PrInfo
  <2>7. CASE WriteUnlock(t)  BY <2>7, NextSeqType DEF WriteUnlock
  <2>8. CASE ReadLock(t)     BY <2>8 DEF ReadLock, Begin
  <2>9. CASE ReadSeqbegin(t) BY <2>9 DEF ReadSeqbegin, Begin
  <2>10. CASE ReadValue(t)   BY <2>10 DEF ReadValue
  <2>11. CASE ReadSeqretry(t) BY <2>11 DEF ReadSeqretry
  <2>12. CASE ShowValue(t)   BY <2>12 DEF ShowValue
  <2>13. CASE ReadUnlock(t)  BY <2>13 DEF ReadUnlock
  <2>14. CASE AtomicInc(t)   BY <2>14, WordStep DEF AtomicInc
  <2>15. CASE LogCount(t)    BY <2>15, WordStep DEF LogCount
  <2> QED BY <1>5, <2>1, <2>2, <2>3, <2>4, <2>5, <2>6, <2>7, <2>8, <2>9, <2>10, <2>11,
             <2>12, <2>13, <2>14, <2>15 DEF Thread, Writer, Reader, Atomic
<1>6. CASE UNCHANGED vars BY <1>6 DEF vars, TypeOK
<1> QED BY <1>1, <1>2, <1>3, <1>4, <1>5, <1>6 DEF Next

\* kthread_run starts a thread that did nothing yet.
LEMMA RunStep ==
  IInv /\ KthreadRun =>
    /\ created + 1 \in Threads /\ pc[created + 1] = "none"
    /\ \A t \in Threads : pc'[t] = IF t = created + 1 THEN "loop" ELSE pc[t]
<1> SUFFICES ASSUME IInv, KthreadRun
             PROVE  /\ created + 1 \in Threads /\ pc[created + 1] = "none"
                    /\ \A t \in Threads : pc'[t] = IF t = created + 1 THEN "loop" ELSE pc[t]
  OBVIOUS
<1>1. created \in 0..N /\ pc \in [Threads -> Labels] /\ StopInv
  BY DEF IInv, TypeOK, ExitInv
<1>2. created + 1 \in Threads
  BY <1>1 DEF KthreadRun
<1>3. pc[created + 1] = "none"
  BY <1>1, <1>2 DEF StopInv
<1> QED BY <1>1, <1>2, <1>3 DEF KthreadRun

LEMMA LockStep == IInv /\ [Next]_vars => LockInv'
<1> SUFFICES ASSUME IInv, [Next]_vars PROVE LockInv'
  OBVIOUS
<1>0. TypeOK /\ TypeOK'
  BY TypeStep DEF IInv
<1> USE <1>0 DEF TypeOK, IInv, LockInv, RoleInv, OwnerInv, ReadersInv, Reading, Critical,
           Writes, Counts
<1>1. CASE KthreadRun
  <2> USE <1>1, RunStep DEF KthreadRun, Lock, Data, Past
  <2>1. RoleInv'     OBVIOUS
  <2>2. OwnerInv'    OBVIOUS
  <2>3. ReadersInv'  OBVIOUS
  <2> QED BY <2>1, <2>2, <2>3
<1>2. CASE Rmmod
  BY <1>2 DEF Rmmod, Lock, Data, Past
<1>3. CASE KthreadStop
  BY <1>3 DEF KthreadStop, Lock, Data, Past
<1>4. CASE KthreadJoin
  BY <1>4 DEF KthreadJoin, Lock, Data, Past
<1>5. ASSUME NEW t \in Threads, Thread(t) PROVE LockInv'
  <2> USE DEF Goto, Module, Lock, Data, Past
  <2>1. CASE Loop(t)         BY <2>1 DEF Loop
  <2>2. CASE Msleep(t)       BY <2>2 DEF Msleep
  <2>3. CASE WriteLock(t)
    <3> USE <2>3 DEF WriteLock, Overtake
    <3>1. \A u \in Threads : pc'[u] = IF u = t THEN "load" ELSE pc[u]
      OBVIOUS
    <3>2. RoleInv'     BY <3>1
    <3>3. OwnerInv'
      <4>1. OwnerInv /\ owner = Nobody /\ owner' = t
        OBVIOUS
      <4> HIDE <1>0, <2>3 DEF TypeOK, IInv
      <4>2. ASSUME NEW u \in Threads PROVE pc'[u] \in Critical <=> owner' = u
        <5>1. CASE u = t  BY <5>1, <3>1, <4>1
        <5>2. CASE u # t  BY <5>2, <3>1, <4>1
        <5> QED BY <5>1, <5>2
      <4> QED BY <4>2
    <3>4. ReadersInv'  BY <3>1
    <3> QED BY <3>2, <3>3, <3>4
  <2>4. CASE Load(t)         BY <2>4 DEF Load
  <2>5. CASE Store(t)        BY <2>5 DEF Store
  <2>6. CASE PrInfo(t)       BY <2>6 DEF PrInfo
  <2>7. CASE WriteUnlock(t)
    <3> USE <2>7 DEF WriteUnlock
    <3>1. \A u \in Threads : pc'[u] = IF u = t THEN "sleep" ELSE pc[u]
      OBVIOUS
    <3>2. RoleInv'     BY <3>1
    <3>3. OwnerInv'
      <4>1. OwnerInv /\ pc[t] = "unlock" /\ owner' = Nobody
        OBVIOUS
      <4> HIDE <1>0, <2>7 DEF TypeOK, IInv
      <4>2. ASSUME NEW u \in Threads PROVE pc'[u] \in Critical <=> owner' = u
        <5>1. CASE u = t  BY <5>1, <3>1, <4>1
        <5>2. CASE u # t  BY <5>2, <3>1, <4>1
        <5> QED BY <5>1, <5>2
      <4> QED BY <4>2
    <3>4. ReadersInv'  BY <3>1
    <3> QED BY <3>2, <3>3, <3>4
  <2>8. CASE ReadLock(t)
    <3> USE <2>8 DEF ReadLock, Begin
    <3>1. \A u \in Threads : pc'[u] = IF u = t THEN "read" ELSE pc[u]
      OBVIOUS
    <3>2. RoleInv'
      BY <3>1
    <3>5. OwnerInv'
      BY <3>1
    <3>3. \A u \in Threads : u \in readers' <=> u \in readers \/ u = t
      OBVIOUS
    <3>4. ReadersInv'
      BY <3>1, <3>3
    <3> QED BY <3>2, <3>4, <3>5
  <2>9. CASE ReadSeqbegin(t) BY <2>9 DEF ReadSeqbegin, Begin
  <2>10. CASE ReadValue(t)   BY <2>10 DEF ReadValue
  <2>11. CASE ReadSeqretry(t) BY <2>11 DEF ReadSeqretry
  <2>12. CASE ShowValue(t)
    <3> USE <2>12 DEF ShowValue
    <3>1. \A u \in Threads : u # t => pc'[u] = pc[u]
      OBVIOUS
    <3>2. pc[t] = "show" /\ pc'[t] = IF driver = "seqlock" THEN "sleep" ELSE "runlock"
      OBVIOUS
    <3>3. driver \in {"rwlock", "seqlock"}
      BY <3>2
    <3>4. RoleInv'     BY <3>1, <3>2, <3>3
    <3>5. OwnerInv'    BY <3>1, <3>2, <3>3
    <3>6. ReadersInv'  BY <3>1, <3>2, <3>3
    <3> QED BY <3>4, <3>5, <3>6
  <2>13. CASE ReadUnlock(t)  BY <2>13 DEF ReadUnlock
  <2>14. CASE AtomicInc(t)   BY <2>14 DEF AtomicInc
  <2>15. CASE LogCount(t)    BY <2>15 DEF LogCount
  <2> QED BY <1>5, <2>1, <2>2, <2>3, <2>4, <2>5, <2>6, <2>7, <2>8, <2>9,
             <2>10, <2>11, <2>12, <2>13, <2>14, <2>15 DEF Thread, Writer, Reader, Atomic
<1>6. CASE UNCHANGED vars
  BY <1>6 DEF vars
<1> QED BY <1>1, <1>2, <1>3, <1>4, <1>5, <1>6 DEF Next

LEMMA ExitStep == IInv /\ [Next]_vars => ExitInv'
<1> SUFFICES ASSUME IInv, [Next]_vars PROVE ExitInv'
  OBVIOUS
<1>0. TypeOK /\ TypeOK'
  BY TypeStep DEF IInv
<1> USE <1>0 DEF TypeOK, IInv, ExitInv, JoinInv, StopInv
<1>1. CASE KthreadRun
  <2>0. created \in 0..N /\ created' = created + 1
    BY <1>1 DEF KthreadRun
  <2>1. StopInv'
    <3>1. \A t \in Threads : t > created' <=> t > created /\ t # created + 1
      <4> HIDE <1>0 DEF TypeOK, IInv
      <4> QED BY <2>0
    <3>2. \A t \in Threads : pc[t] = "none" <=> t > created
      OBVIOUS
    <3>3. \A t \in Threads : pc'[t] = IF t = created + 1 THEN "loop" ELSE pc[t]
      BY <1>1, RunStep
    <3> HIDE <1>0 DEF TypeOK, IInv
    <3> QED BY <3>1, <3>2, <3>3
  <2>2. JoinInv'
    BY <1>1, RunStep DEF KthreadRun
  <2> QED BY <2>1, <2>2
<1>2. CASE Rmmod
  BY <1>2 DEF Rmmod, Lock, Data, Past
<1>3. CASE KthreadStop
  BY <1>3 DEF KthreadStop, Lock, Data, Past
<1>4. CASE KthreadJoin
  <2>1. /\ joined \in 0..N /\ joined' = joined + 1 /\ pc[joined + 1] = "done"
        /\ pc' = pc /\ created' = created
        /\ \A t \in Threads : t <= joined => pc[t] = "done"
        /\ \A t \in Threads : pc[t] = "none" <=> t > created
    BY <1>4 DEF KthreadJoin
  <2> HIDE <1>0 DEF TypeOK, IInv
  <2>2. \A t \in Threads : t <= joined' => t <= joined \/ t = joined + 1
    BY <2>1
  <2> QED BY <2>1, <2>2
<1>5. ASSUME NEW t \in Threads, Thread(t) PROVE ExitInv'
  <2> USE DEF Goto, Module, Lock, Data, Past
  <2>1. CASE Loop(t)         BY <2>1 DEF Loop
  <2>2. CASE Msleep(t)       BY <2>2 DEF Msleep
  <2>3. CASE WriteLock(t)    BY <2>3 DEF WriteLock, Overtake
  <2>4. CASE Load(t)         BY <2>4 DEF Load
  <2>5. CASE Store(t)        BY <2>5 DEF Store
  <2>6. CASE PrInfo(t)       BY <2>6 DEF PrInfo
  <2>7. CASE WriteUnlock(t)  BY <2>7 DEF WriteUnlock
  <2>8. CASE ReadLock(t)     BY <2>8 DEF ReadLock, Begin
  <2>9. CASE ReadSeqbegin(t) BY <2>9 DEF ReadSeqbegin, Begin
  <2>10. CASE ReadValue(t)   BY <2>10 DEF ReadValue
  <2>11. CASE ReadSeqretry(t) BY <2>11 DEF ReadSeqretry
  <2>12. CASE ShowValue(t)   BY <2>12 DEF ShowValue
  <2>13. CASE ReadUnlock(t)  BY <2>13 DEF ReadUnlock
  <2>14. CASE AtomicInc(t)   BY <2>14 DEF AtomicInc
  <2>15. CASE LogCount(t)    BY <2>15 DEF LogCount
  <2> QED BY <1>5, <2>1, <2>2, <2>3, <2>4, <2>5, <2>6, <2>7, <2>8, <2>9,
             <2>10, <2>11, <2>12, <2>13, <2>14, <2>15 DEF Thread, Writer, Reader, Atomic
<1>6. CASE UNCHANGED vars
  BY <1>6 DEF vars
<1> QED BY <1>1, <1>2, <1>3, <1>4, <1>5, <1>6 DEF Next

\* A reader accepts only if no write was begun since its attempt began.
LEMMA AcceptFact ==
  \A t \in Threads :
    IInv /\ ReadSeqretry(t) /\ pc'[t] = "show" => overtaken[t] = 0 /\ owner = Nobody
<1> SUFFICES ASSUME NEW t \in Threads, IInv, ReadSeqretry(t), pc'[t] = "show"
             PROVE  overtaken[t] = 0 /\ owner = Nobody
  OBVIOUS
<1>1. pc[t] = "retry" /\ seq = seq_no[t]
  BY DEF ReadSeqretry, Goto, IInv, TypeOK
<1>2. Attempting(t)
  BY <1>1 DEF IInv, LockInv, RoleInv, Attempting
<1>3. seq_no[t] \in 0..(S - 1) /\ overtaken[t] \in Nat /\ S \in Nat
  BY SequenceAssumption DEF IInv, TypeOK
<1>4. /\ 2 * overtaken[t] < S
      /\ overtaken[t] = 0 => owner = Nobody
      /\ seq_no[t] = Turned(seq_no[t], Moved(t))
  BY <1>1, <1>2 DEF IInv, SeqInv, AttemptInv, AttemptOK
<1> QED BY <1>3, <1>4 DEF Moved, Turned

LEMMA DataStep == IInv /\ [Next]_vars => DataInv'
<1> SUFFICES ASSUME IInv, [Next]_vars PROVE DataInv'
  OBVIOUS
<1>0. TypeOK /\ TypeOK'
  BY TypeStep DEF IInv
<1> USE <1>0 DEF TypeOK, IInv, LockInv, RoleInv, OwnerInv, ReadersInv, DataInv, FreshInv, LogInv, Due,
           HeldInv, CleanRead, SeqInv, AttemptInv, AttemptOK, Attempting, Reading, Critical, Writes, Counts
<1>1. CASE KthreadRun
  <2> USE <1>1, RunStep DEF KthreadRun, Lock, Data, Past
  <2>1. FreshInv' /\ LogInv'      OBVIOUS
  <2>2. HeldInv' /\ CleanRead'    OBVIOUS
  <2> QED BY <2>1, <2>2
<1>2. CASE Rmmod
  BY <1>2 DEF Rmmod, Lock, Data, Past
<1>3. CASE KthreadStop
  BY <1>3 DEF KthreadStop, Lock, Data, Past
<1>4. CASE KthreadJoin
  BY <1>4 DEF KthreadJoin, Lock, Data, Past
<1>5. ASSUME NEW t \in Threads, Thread(t) PROVE DataInv'
  <2> USE DEF Goto, Module, Lock, Data, Past
  <2>1. CASE Loop(t)         BY <2>1 DEF Loop
  <2>2. CASE Msleep(t)       BY <2>2 DEF Msleep
  <2>3. CASE WriteLock(t)    BY <2>3 DEF WriteLock, Overtake
  <2>4. CASE Load(t)         BY <2>4 DEF Load
  <2>5. CASE Store(t)
    <3> USE <2>5 DEF Store
    <3>1. pc[t] = "store" /\ owner = t /\ value[t] = etx_global_variable
      OBVIOUS
    <3>2. \A u \in Threads : pc'[u] = IF u = t THEN IF Counts THEN "print" ELSE "unlock"
                                              ELSE pc[u]
      OBVIOUS
    <3>3. \A u \in Threads : u # t => pc[u] \notin Critical
      BY <3>1
    <3>4. readers = {}
      <4>1. ReadersInv
        OBVIOUS
      <4> HIDE <1>0, <2>5 DEF TypeOK, IInv
      <4> QED BY <3>1, <4>1
    <3>5. FreshInv'
      BY <3>2, <3>3
    <3>6. HeldInv' /\ CleanRead'
      BY <3>2, <3>4
    <3>7. LogInv'
      <4>1. Due' <=> Counts
        <5> HIDE <1>0, <2>5 DEF TypeOK, IInv, Counts
        <5> QED BY <3>2, <3>3
      <4>2. lines' = lines /\ (Counts => printed' = lines)
        OBVIOUS
      <4>3. Counts => etx_global_variable = lines
        BY <3>1, <3>3
      <4>4. Counts' <=> Counts
        OBVIOUS
      <4> QED BY <3>1, <4>1, <4>2, <4>3, <4>4
    <3> QED BY <3>5, <3>6, <3>7
  <2>6. CASE PrInfo(t)
    <3> USE <2>6 DEF PrInfo
    <3>1. \A u \in Threads : pc'[u] = IF u = t THEN "unlock" ELSE pc[u]
      OBVIOUS
    <3>2. FreshInv'    BY <3>1
    <3>3. LogInv'
      <4>1. pc[t] = "print" /\ OwnerInv /\ LogInv
        OBVIOUS
      <4>2. /\ lines' = (lines + 1) % W /\ printed' = etx_global_variable
            /\ etx_global_variable' = etx_global_variable /\ Counts /\ (Counts' <=> Counts)
        OBVIOUS
      <4> HIDE <1>0, <2>6 DEF TypeOK, IInv, Counts
      <4>3. Due /\ ~Due'
        BY <3>1, <4>1
      <4>4. etx_global_variable = (lines + 1) % W
        BY <4>1, <4>2, <4>3
      <4> QED BY <4>2, <4>3, <4>4 DEF LogInv
    <3>4. HeldInv'     BY <3>1
    <3>5. CleanRead'   BY <3>1
    <3> QED BY <3>2, <3>3, <3>4, <3>5
  <2>7. CASE WriteUnlock(t)
    <3> USE <2>7 DEF WriteUnlock
    <3>1. \A u \in Threads : pc'[u] = IF u = t THEN "sleep" ELSE pc[u]
      OBVIOUS
    <3>2. FreshInv'    BY <3>1
    <3>3. LogInv'      BY <3>1
    <3>4. HeldInv'     BY <3>1
    <3>5. CleanRead'   BY <3>1
    <3> QED BY <3>2, <3>3, <3>4, <3>5
  <2>8. CASE ReadLock(t)
    <3> USE <2>8 DEF ReadLock, Begin
    <3>1. \A u \in Threads : pc'[u] = IF u = t THEN "read" ELSE pc[u]
      OBVIOUS
    <3>2. FreshInv'    BY <3>1
    <3>3. LogInv'      BY <3>1
    <3>4. HeldInv'     BY <3>1
    <3>5. CleanRead'   BY <3>1
    <3> QED BY <3>2, <3>3, <3>4, <3>5
  <2>9. CASE ReadSeqbegin(t)
    <3> USE <2>9 DEF ReadSeqbegin, Begin
    <3>1. \A u \in Threads : pc'[u] = IF u = t THEN "read" ELSE pc[u]
      OBVIOUS
    <3>2. FreshInv'    BY <3>1
    <3>3. LogInv'      BY <3>1
    <3>4. HeldInv'     BY <3>1
    <3>5. CleanRead'   BY <3>1
    <3> QED BY <3>2, <3>3, <3>4, <3>5
  <2>10. CASE ReadValue(t)
    <3> USE <2>10 DEF ReadValue
    <3>1. pc[t] = "read" /\ ~Writes(t)
      OBVIOUS
    <3>2. driver \in {"rwlock", "seqlock"}
      BY <3>1
    <3>3. /\ pc'[t] = IF driver = "seqlock" THEN "retry" ELSE "show"
          /\ value'[t] = etx_global_variable
      OBVIOUS
    <3>4. \A u \in Threads : u # t => pc'[u] = pc[u] /\ value'[u] = value[u]
      OBVIOUS
    <3>5. FreshInv' /\ LogInv' /\ HeldInv'
      BY <3>1, <3>3, <3>4
    <3>6. CleanRead'
      <4>1. CleanRead /\ snapshot' = snapshot
        OBVIOUS
      <4>2. driver # "seqlock" => value'[t] = snapshot[t]
        BY <3>1, <3>2, <3>3
      <4> HIDE <1>0, <2>10 DEF TypeOK, IInv
      <4>3. ASSUME NEW u \in Threads, pc'[u] = "show" PROVE value'[u] = snapshot'[u]
        <5>1. CASE u = t  BY <5>1, <4>1, <4>2, <4>3, <3>3
        <5>2. CASE u # t  BY <5>2, <4>1, <4>3, <3>4
        <5> QED BY <5>1, <5>2
      <4> QED BY <4>3
    <3> QED BY <3>5, <3>6
  <2>11. CASE ReadSeqretry(t)
    <3> USE <2>11 DEF ReadSeqretry
    <3>1. pc[t] = "retry" /\ \A u \in Threads : u # t => pc'[u] = pc[u]
      OBVIOUS
    <3>2. pc'[t] \in {"lock", "show"}
      OBVIOUS
    <3>3. FreshInv' /\ LogInv' /\ HeldInv'
      BY <3>1, <3>2
    <3>4. pc'[t] = "show" => overtaken[t] = 0
      BY AcceptFact
    <3>5. CleanRead'
      BY <3>1, <3>2, <3>4
    <3> QED BY <3>3, <3>5
  <2>12. CASE ShowValue(t)   BY <2>12 DEF ShowValue
  <2>13. CASE ReadUnlock(t)  BY <2>13 DEF ReadUnlock
  <2>14. CASE AtomicInc(t)
    <3> USE <2>14 DEF AtomicInc
    <3>1. \A u \in Threads : pc'[u] = IF u = t THEN "log" ELSE pc[u]
      OBVIOUS
    <3>2. \A u \in Threads : pc[u] \notin Critical /\ u \notin readers /\ pc[u] # "show"
      OBVIOUS
    <3>3. driver' = "atomic" /\ readers' = readers
      OBVIOUS
    <3> HIDE <1>0, <2>14 DEF TypeOK, IInv
    <3>4. FreshInv' /\ LogInv' /\ HeldInv' /\ CleanRead'
      BY <3>1, <3>2, <3>3
    <3> QED BY <3>4
  <2>15. CASE LogCount(t)
    <3> USE <2>15 DEF LogCount
    <3>1. \A u \in Threads : pc'[u] = IF u = t THEN "sleep" ELSE pc[u]
      OBVIOUS
    <3>2. \A u \in Threads : pc[u] \notin Critical /\ u \notin readers /\ pc[u] # "show"
      OBVIOUS
    <3>3. driver' = "atomic" /\ readers' = readers
      OBVIOUS
    <3> HIDE <1>0, <2>15 DEF TypeOK, IInv
    <3>4. FreshInv' /\ LogInv' /\ HeldInv' /\ CleanRead'
      BY <3>1, <3>2, <3>3
    <3> QED BY <3>4
  <2> QED BY <1>5, <2>1, <2>2, <2>3, <2>4, <2>5, <2>6, <2>7, <2>8, <2>9,
             <2>10, <2>11, <2>12, <2>13, <2>14, <2>15 DEF Thread, Writer, Reader, Atomic
<1>6. CASE UNCHANGED vars
  BY <1>6 DEF vars
<1> QED BY <1>1, <1>2, <1>3, <1>4, <1>5, <1>6 DEF Next

LEMMA TurnStep ==
  \A a, m \in 0..(S - 1) : (Turned(a, m) + 1) % S = Turned(a, m + 1)
<1> SUFFICES ASSUME NEW a \in 0..(S - 1), NEW m \in 0..(S - 1)
             PROVE  (Turned(a, m) + 1) % S = Turned(a, m + 1)
  OBVIOUS
<1>1. S \in Nat \ {0}
  BY SequenceAssumption
<1>2. Turned(a, m) \in 0..(S - 1)
  BY <1>1 DEF Turned
<1> QED BY <1>1, <1>2, SeqArith DEF Turned

\* A write that begins, stores or ends, and an attempt that begins.
LEMMA WriteLockSeq == \A t \in Threads : IInv /\ WriteLock(t) => SeqInv'
<1> SUFFICES ASSUME NEW t \in Threads, IInv, WriteLock(t) PROVE SeqInv'
  OBVIOUS
<1>1. /\ owner = Nobody /\ owner' = t /\ seq' = NextSeq /\ driver' = driver
      /\ etx_global_variable' = etx_global_variable /\ seq_no' = seq_no /\ value' = value
      /\ seq \in 0..(S - 1) /\ S \in Nat \ {0}
  BY SequenceAssumption DEF WriteLock, Module, Data, IInv, TypeOK
<1>2. ParityInv'
  BY <1>1, SeqArith DEF ParityInv, NextSeq, IInv, SeqInv
<1>3. ASSUME NEW r \in Threads, Attempting(r)' PROVE AttemptOK(r)'
  <2>1. Attempting(r) /\ pc'[r] = pc[r]
    BY <1>1, <1>3 DEF Attempting, WriteLock, Goto, IInv, TypeOK
  <2>2. AttemptOK(r)
    BY <2>1 DEF IInv, SeqInv, AttemptInv
  <2>3. /\ overtaken[r] \in Nat /\ seq_no[r] \in 0..(S - 1)
    BY DEF IInv, TypeOK
  <2>4. overtaken'[r] = overtaken[r] + 1 /\ 2 * (overtaken[r] + 1) < S
    BY <2>1 DEF WriteLock, Overtake, NoWrap
  <2>5. seq' = (seq + 1) % S
    BY <1>1, <2>1 DEF NextSeq, Attempting
  <2>6. seq = Turned(seq_no[r], 2 * overtaken[r])
    BY <1>1, <2>2 DEF AttemptOK, Moved
  <2>7. 2 * overtaken[r] \in 0..(S - 1)
    BY <1>1, <2>3, <2>4
  <2>8. seq' = Turned(seq_no[r], 2 * overtaken[r] + 1)
    BY <2>3, <2>5, <2>6, <2>7, TurnStep
  <2>9. Moved(r)' = 2 * overtaken[r] + 1
    BY <1>1, <2>3, <2>4 DEF Moved
  <2> QED BY <1>1, <2>3, <2>4, <2>8, <2>9 DEF AttemptOK
<1> QED BY <1>2, <1>3 DEF SeqInv, AttemptInv

LEMMA StoreSeq == \A t \in Threads : IInv /\ Store(t) => SeqInv'
<1> SUFFICES ASSUME NEW t \in Threads, IInv, Store(t) PROVE SeqInv'
  OBVIOUS
<1>1. owner = t /\ pc[t] = "store" /\ pc'[t] \in {"print", "unlock"}
  BY DEF Store, Goto, IInv, TypeOK, LockInv, OwnerInv, Critical
<1>2. /\ owner' = owner /\ seq' = seq /\ driver' = driver /\ seq_no' = seq_no
      /\ value' = value /\ overtaken' = overtaken /\ snapshot' = snapshot
  BY DEF Store, Module, Lock, Past
<1>3. ASSUME NEW r \in Threads, Attempting(r)' PROVE AttemptOK(r)'
  <2>1. Attempting(r) /\ pc'[r] = pc[r]
    BY <1>1, <1>2, <1>3 DEF Attempting, Store, Goto, IInv, TypeOK
  <2>2. AttemptOK(r)
    BY <2>1 DEF IInv, SeqInv, AttemptInv
  <2>3. overtaken[r] # 0
    BY <1>1, <2>2 DEF AttemptOK
  <2> QED BY <1>2, <2>1, <2>2, <2>3 DEF AttemptOK, Moved
<1> QED BY <1>2, <1>3 DEF SeqInv, AttemptInv, ParityInv, IInv

LEMMA WriteUnlockSeq == \A t \in Threads : IInv /\ WriteUnlock(t) => SeqInv'
<1> SUFFICES ASSUME NEW t \in Threads, IInv, WriteUnlock(t) PROVE SeqInv'
  OBVIOUS
<1>1. /\ owner = t /\ owner' = Nobody /\ seq' = NextSeq /\ driver' = driver
      /\ seq \in 0..(S - 1) /\ S \in Nat \ {0}
  BY SequenceAssumption
     DEF WriteUnlock, Module, Goto, IInv, TypeOK, LockInv, OwnerInv, Critical
<1>2. /\ overtaken' = overtaken /\ snapshot' = snapshot /\ seq_no' = seq_no
      /\ value' = value /\ etx_global_variable' = etx_global_variable
  BY DEF WriteUnlock, Data, Past
<1>3. ParityInv'
  BY <1>1, SeqArith DEF ParityInv, NextSeq, IInv, SeqInv
<1>4. ASSUME NEW r \in Threads, Attempting(r)' PROVE AttemptOK(r)'
  <2>1. Attempting(r) /\ pc'[r] = pc[r]
    BY <1>1, <1>4 DEF Attempting, WriteUnlock, Goto, IInv, TypeOK
  <2>2. AttemptOK(r)
    BY <2>1 DEF IInv, SeqInv, AttemptInv
  <2>3. overtaken[r] \in Nat /\ seq_no[r] \in 0..(S - 1)
    BY DEF IInv, TypeOK
  <2>4. overtaken[r] # 0 /\ 2 * overtaken[r] < S
    BY <1>1, <2>2 DEF AttemptOK
  <2>5. seq' = (seq + 1) % S
    BY <1>1, <2>1 DEF NextSeq, Attempting
  <2>6. seq = Turned(seq_no[r], 2 * overtaken[r] - 1)
    BY <1>1, <2>2 DEF AttemptOK, Moved
  <2>7. 2 * overtaken[r] - 1 \in 0..(S - 1) /\ (2 * overtaken[r] - 1) + 1 = 2 * overtaken[r]
    BY <1>1, <2>3, <2>4
  <2>8. seq' = Turned(seq_no[r], 2 * overtaken[r])
    BY <2>3, <2>5, <2>6, <2>7, TurnStep
  <2>9. Moved(r)' = 2 * overtaken[r]
    BY <1>1, <1>2 DEF Moved
  <2> QED BY <1>1, <1>2, <2>4, <2>8, <2>9 DEF AttemptOK
<1> QED BY <1>3, <1>4 DEF SeqInv, AttemptInv

LEMMA ReadSeqbeginSeq == \A t \in Threads : IInv /\ ReadSeqbegin(t) => SeqInv'
<1> SUFFICES ASSUME NEW t \in Threads, IInv, ReadSeqbegin(t) PROVE SeqInv'
  OBVIOUS
<1>1. /\ driver' = driver /\ owner' = owner /\ seq' = seq /\ value' = value
      /\ etx_global_variable' = etx_global_variable
      /\ seq \in 0..(S - 1) /\ S \in Nat \ {0} /\ seq % 2 = 0 /\ driver = "seqlock"
  BY SequenceAssumption DEF ReadSeqbegin, Module, Lock, IInv, TypeOK
<1>2. ParityInv /\ ParityInv' /\ owner = Nobody
  BY <1>1 DEF ParityInv, IInv, SeqInv
<1>3. AttemptOK(t)'
  <2>1. /\ overtaken'[t] = 0 /\ snapshot'[t] = etx_global_variable /\ seq_no'[t] = seq
        /\ pc'[t] = "read"
    BY DEF ReadSeqbegin, Begin, Goto, IInv, TypeOK
  <2>2. Moved(t)' = 0 /\ seq = Turned(seq, 0)
    BY <1>1, <1>2, <2>1 DEF Moved, Turned
  <2> QED BY <1>1, <1>2, <2>1, <2>2 DEF AttemptOK
<1>4. ASSUME NEW r \in Threads, Attempting(r)', r # t PROVE AttemptOK(r)'
  <2>1. /\ pc'[r] = pc[r] /\ seq_no'[r] = seq_no[r] /\ overtaken'[r] = overtaken[r]
        /\ snapshot'[r] = snapshot[r]
    BY <1>4 DEF ReadSeqbegin, Begin, Goto, IInv, TypeOK
  <2>2. AttemptOK(r)
    BY <1>1, <1>4, <2>1 DEF Attempting, IInv, SeqInv, AttemptInv
  <2> QED BY <1>1, <2>1, <2>2 DEF AttemptOK, Moved
<1> QED BY <1>2, <1>3, <1>4 DEF SeqInv, AttemptInv

LEMMA SeqInvStep == IInv /\ [Next]_vars => SeqInv'
<1> SUFFICES ASSUME IInv, [Next]_vars PROVE SeqInv'
  OBVIOUS
<1>0. TypeOK /\ TypeOK'
  BY TypeStep DEF IInv
<1> USE <1>0 DEF TypeOK, IInv, LockInv, RoleInv, OwnerInv, SeqInv, ParityInv, AttemptInv, AttemptOK,
           Attempting, Critical
<1>1. CASE KthreadRun
  BY <1>1, RunStep DEF KthreadRun, Moved, Lock, Data, Past
<1>2. CASE Rmmod
  BY <1>2 DEF Rmmod, Moved, Lock, Data, Past
<1>3. CASE KthreadStop
  BY <1>3 DEF KthreadStop, Moved, Lock, Data, Past
<1>4. CASE KthreadJoin
  BY <1>4 DEF KthreadJoin, Moved, Lock, Data, Past
<1>5. ASSUME NEW t \in Threads, Thread(t) PROVE SeqInv'
  <2> USE DEF Goto, Module, Lock, Data, Past
  <2>1. CASE Loop(t)         BY <2>1 DEF Loop, Moved
  <2>2. CASE Msleep(t)       BY <2>2 DEF Msleep, Moved
  <2>3. CASE WriteLock(t)    BY <2>3, WriteLockSeq
  <2>4. CASE Load(t)         BY <2>4 DEF Load, Moved
  <2>5. CASE Store(t)        BY <2>5, StoreSeq
  <2>6. CASE PrInfo(t)       BY <2>6 DEF PrInfo, Moved
  <2>7. CASE WriteUnlock(t)  BY <2>7, WriteUnlockSeq
  <2>8. CASE ReadLock(t)     BY <2>8 DEF ReadLock, Moved, Begin
  <2>9. CASE ReadSeqbegin(t) BY <2>9, ReadSeqbeginSeq
  <2>10. CASE ReadValue(t)   BY <2>10 DEF ReadValue, Moved
  <2>11. CASE ReadSeqretry(t) BY <2>11 DEF ReadSeqretry, Moved
  <2>12. CASE ShowValue(t)   BY <2>12 DEF ShowValue, Moved
  <2>13. CASE ReadUnlock(t)  BY <2>13 DEF ReadUnlock, Moved
  <2>14. CASE AtomicInc(t)   BY <2>14 DEF AtomicInc, Moved
  <2>15. CASE LogCount(t)    BY <2>15 DEF LogCount, Moved
  <2> QED BY <1>5, <2>1, <2>2, <2>3, <2>4, <2>5, <2>6, <2>7, <2>8, <2>9,
             <2>10, <2>11, <2>12, <2>13, <2>14, <2>15 DEF Thread, Writer, Reader, Atomic
<1>6. CASE UNCHANGED vars
  BY <1>6 DEF vars, Moved
<1> QED BY <1>1, <1>2, <1>3, <1>4, <1>5, <1>6 DEF Next

\* The lines that are due follow the counts and the lines of the lock-free driver.
LEMMA OwedIsFinite == IsFiniteSet(Owed) /\ Cardinality(Owed) \in 0..N
<1>1. IsFiniteSet(Threads) /\ Cardinality(Threads) = N
  BY FS_Interval
<1>2. Owed \subseteq Threads
  BY DEF Owed
<1>3. IsFiniteSet(Owed) /\ Cardinality(Owed) <= N
  BY <1>1, <1>2, FS_Subset
<1> QED BY <1>3, FS_CardinalityType

LEMMA OwedStep == IInv /\ [Next]_vars => OwedInv'
<1> SUFFICES ASSUME IInv, [Next]_vars, driver' = "atomic"
             PROVE  Log!Ahead(etx_global_variable', lines') = Cardinality(Owed')
  BY DEF OwedInv, Log!Ahead
<1>0. /\ driver = "atomic" /\ pc \in [Threads -> Labels]
      /\ etx_global_variable \in 0..(W - 1) /\ lines \in 0..(W - 1)
  BY DEF IInv, TypeOK, Next, Thread, Writer, Reader, Atomic, vars, Module, KthreadRun, Rmmod,
     KthreadStop, KthreadJoin, Loop, Msleep, WriteLock, Load, Store, PrInfo, WriteUnlock,
     ReadLock, ReadSeqbegin, ReadValue, ReadSeqretry, ShowValue, ReadUnlock, AtomicInc, LogCount
<1>1. Log!Ahead(etx_global_variable, lines) = Cardinality(Owed)
  BY <1>0 DEF IInv, OwedInv
<1>2. ASSUME Owed' = Owed, etx_global_variable' = etx_global_variable, lines' = lines
      PROVE  Log!Ahead(etx_global_variable', lines') = Cardinality(Owed')
  BY <1>1, <1>2
<1>3. \A t \in Threads : pc[t] \notin Critical \cup {"read", "retry", "show", "runlock"}
  BY <1>0 DEF IInv, LockInv, RoleInv, Writes, Counts
<1>4. CASE KthreadRun
  BY <1>2, <1>4, RunStep DEF KthreadRun, Owed, Data
<1>5. CASE Rmmod \/ KthreadStop \/ KthreadJoin \/ UNCHANGED vars
  BY <1>2, <1>5 DEF Rmmod, KthreadStop, KthreadJoin, vars, Owed, Data
<1>6. ASSUME NEW t \in Threads, Thread(t)
      PROVE  Log!Ahead(etx_global_variable', lines') = Cardinality(Owed')
  <2>1. CASE Loop(t) \/ Msleep(t)
    BY <1>0, <1>2, <2>1 DEF Loop, Msleep, Goto, Owed, Data
  <2>2. CASE AtomicInc(t)
    <3>1. Owed' = Owed \cup {t} /\ t \notin Owed
      BY <1>0, <2>2 DEF AtomicInc, Goto, Owed
    <3>2. Cardinality(Owed') = Cardinality(Owed) + 1
      BY <3>1, OwedIsFinite, FS_AddElement
    <3>3. Cardinality(Owed) + 1 <= N
      <4>1. IsFiniteSet(Owed') /\ Cardinality(Owed') <= N
        <5>1. Owed' \subseteq Threads  BY DEF Owed
        <5>2. IsFiniteSet(Threads) /\ Cardinality(Threads) = N  BY FS_Interval
        <5> QED BY <5>1, <5>2, FS_Subset
      <4> QED BY <3>2, <4>1
    <3>4. Log!Ahead(etx_global_variable, lines) < W - 1
      BY <1>1, <3>3, WordAssumption, OwedIsFinite
    <3> QED BY <1>0, <1>1, <2>2, <3>2, <3>4, AheadStep DEF AtomicInc
  <2>3. CASE LogCount(t)
    <3>1. Owed' = Owed \ {t} /\ t \in Owed
      BY <1>0, <2>3 DEF LogCount, Goto, Owed
    <3>2. Cardinality(Owed') = Cardinality(Owed) - 1
      BY <3>1, OwedIsFinite, FS_RemoveElement
    <3>3. Cardinality(Owed) > 0
      BY <3>1, OwedIsFinite, FS_EmptySet
    <3> QED BY <1>0, <1>1, <2>3, <3>2, <3>3, AheadStep DEF LogCount
  <2>4. ~Writer(t) /\ ~Reader(t)
    BY <1>0, <1>3 DEF Writer, Reader, WriteLock, Load, Store, PrInfo, WriteUnlock, ReadLock,
       ReadSeqbegin, ReadValue, ReadSeqretry, ShowValue, ReadUnlock, Goto, Writes, Counts, Critical
  <2> QED BY <1>6, <2>1, <2>2, <2>3, <2>4 DEF Thread, Atomic
<1> QED BY <1>4, <1>5, <1>6 DEF Next

\* The strengthened invariant holds in every reachable state.
THEOREM Invariant == Spec => []IInv
<1>1. IInv /\ [Next]_vars => IInv'
  BY TypeStep, LockStep, SeqInvStep, DataStep, OwedStep, ExitStep DEF IInv
<1> QED BY InitIInv, <1>1, PTL DEF Spec

-----------------------------------------------------------------------------
\* The variables of the five drivers keep their types.
THEOREM TypeCorrect == Spec => []TypeOK
<1>1. IInv => TypeOK
  BY DEF IInv
<1> QED BY <1>1, Invariant, PTL

\* A thread between the calls that take and release the lock for writing is
\* alone there.
THEOREM MutexExcludes == Spec => []MutualExclusion
<1>1. IInv => MutualExclusion
  <2> SUFFICES ASSUME IInv, NEW s \in Threads, NEW t \in Threads,
                      pc[s] \in Critical, pc[t] \in Critical \/ t \in readers
               PROVE  s = t
    BY DEF MutualExclusion
  <2>1. owner = s
    BY DEF IInv, LockInv, OwnerInv
  <2>2. CASE pc[t] \in Critical
    BY <2>1, <2>2 DEF IInv, LockInv, OwnerInv
  <2>3. CASE t \in readers
    BY <2>1, <2>3 DEF IInv, LockInv, ReadersInv, Nobody, Threads
  <2> QED BY <2>2, <2>3
<1> QED BY <1>1, Invariant, PTL

\* When the kthread_stop calls have returned the module is quiet: no thread
\* runs its code and the lock is free.
THEOREM ExitIsQuiet == Spec => []QuietAfterJoin
<1>1. IInv => QuietAfterJoin
  <2> SUFFICES ASSUME IInv, joined = N PROVE owner = Nobody /\ readers = {}
                                            /\ \A t \in Threads : pc[t] = "done"
    BY DEF QuietAfterJoin
  <2>1. \A t \in Threads : pc[t] = "done"
    BY DEF IInv, ExitInv, JoinInv
  <2>2. owner \in Threads \cup {Nobody} /\ readers \subseteq Threads
    BY DEF IInv, TypeOK
  <2> QED BY <2>1, <2>2 DEF IInv, LockInv, OwnerInv, ReadersInv, Reading, Critical
<1> QED BY <1>1, Invariant, PTL

\* What a reader logs was the committed value when its attempt began, although
\* the seqlock's reader never excludes the writer.
THEOREM ReaderIsClean == Spec => []CleanRead
<1>1. IInv => CleanRead
  BY DEF IInv, DataInv
<1> QED BY <1>1, Invariant, PTL

\* The seqlock's reader accepts a value only if no write was begun since its
\* attempt began.
THEOREM ReaderIsUndisturbed == Spec => AcceptsOnlyUndisturbed
<1>1. ASSUME IInv, [Next]_vars, NEW r \in Threads, pc[r] = "retry", pc'[r] = "show"
      PROVE  ReadSeqretry(r)
  <2>1. pc \in [Threads -> Labels]
    BY <1>1 DEF IInv, TypeOK
  <2>2. ~KthreadRun
    BY <1>1, RunStep
  <2>3. ASSUME NEW t \in Threads, Thread(t) PROVE ReadSeqretry(r)
    <3>1. ASSUME NEW a, NEW b, Goto(t, a, b), a # "retry" PROVE FALSE
      BY <1>1, <2>1, <3>1 DEF Goto
    <3>2. ReadSeqretry(t)
      BY <2>3, <3>1, Zenon DEF Thread, Writer, Reader, Loop, Msleep, WriteLock, Load, Store,
         PrInfo, WriteUnlock, ReadLock, ReadSeqbegin, Begin, ReadValue, ShowValue, ReadUnlock,
         Atomic, AtomicInc, LogCount
    <3> QED BY <1>1, <2>1, <3>2 DEF ReadSeqretry, Goto
  <2> QED BY <1>1, <2>2, <2>3 DEF Next, Rmmod, KthreadStop, KthreadJoin, vars
<1>2. IInv /\ [Next]_vars
        => [\A t \in Threads : pc[t] = "retry" /\ pc'[t] = "show" =>
              overtaken[t] = 0 /\ owner = Nobody]_vars
  BY <1>1, AcceptFact
<1> QED BY <1>2, Invariant, PTL DEF Spec, AcceptsOnlyUndisturbed

-----------------------------------------------------------------------------
\* Under the mutex and the spinlock the threads count and log one at a time: no
\* lost increment, no value logged twice, none skipped. Without a lock, a line
\* shows no less than its number and no more than has been counted.
THEOREM ImplementsTicker == Spec => TickerSpec
<1> DEFINE Mapped == <<IF driver = "atomic" THEN N ELSE 1,
                       IF Logs THEN etx_global_variable ELSE 0, lines, printed>>
<1>1. Init => Log!Init
  BY WordAssumption DEF Init, Log!Init
<1>2. IInv /\ [Next]_vars => [Log!Count \/ Log!Tick]_Log!vars
  <2> SUFFICES ASSUME IInv, [Next]_vars PROVE (Log!Count \/ Log!Tick) \/ UNCHANGED Mapped
    BY DEF Log!vars
  <2>0. /\ driver' = driver /\ (Logs' <=> Logs) /\ (Counts' <=> Counts)
        /\ etx_global_variable \in 0..(W - 1) /\ lines \in 0..(W - 1)
        /\ etx_global_variable' \in 0..(W - 1)
    BY TypeStep DEF IInv, TypeOK, Next, Thread, Writer, Reader, Atomic, vars, Module, KthreadRun,
       Rmmod, KthreadStop, KthreadJoin, Loop, Msleep, WriteLock, Load, Store, PrInfo, WriteUnlock,
       ReadLock, ReadSeqbegin, ReadValue, ReadSeqretry, ShowValue, ReadUnlock, AtomicInc, LogCount,
       Logs, Counts
  <2>1. ASSUME NEW t \in Threads, Store(t) PROVE Log!Count \/ UNCHANGED Mapped
    <3>1. pc[t] = "store" /\ owner = t /\ driver # "atomic"
      BY <2>1 DEF Store, Goto, IInv, LockInv, OwnerInv, RoleInv, Critical, Writes, Counts
    <3>2. etx_global_variable' = (etx_global_variable + 1) % W /\ lines' = lines
          /\ printed' = printed
      BY <2>1, <3>1 DEF Store, IInv, DataInv, FreshInv
    <3>3. CASE Counts
      <4>1. ~Due
        BY <3>1 DEF Due, IInv, LockInv, OwnerInv, Critical
      <4>2. Log!Due = 0
        BY <2>0, <3>3, <4>1 DEF Log!Due, Log!Ahead, Logs, IInv, DataInv, LogInv
      <4> QED BY <2>0, <3>1, <3>2, <3>3, <4>2 DEF Log!Count, Logs
    <3>4. CASE ~Counts
      BY <2>0, <3>1, <3>2, <3>4 DEF Logs
    <3> QED BY <3>3, <3>4
  <2>2. ASSUME NEW t \in Threads, PrInfo(t) PROVE Log!Tick
    <3>1. pc[t] = "print" /\ Counts
      BY <2>2 DEF PrInfo, Goto, IInv, LockInv, RoleInv
    <3>2. etx_global_variable = (lines + 1) % W
      BY <3>1 DEF IInv, DataInv, LogInv, Due
    <3>3. Log!Ahead(etx_global_variable, lines) = 1 /\ Log!Due = 1
      BY <2>0, <3>1, <3>2, AheadStep, WordAssumption DEF Log!Due, Logs
    <3> QED BY <2>0, <2>2, <3>3 DEF PrInfo, Log!Tick, Logs
  <2>3. ASSUME NEW t \in Threads, AtomicInc(t) PROVE Log!Count
    <3>1. driver = "atomic" /\ t \notin Owed
      BY <2>3 DEF AtomicInc, Goto, Owed
    <3>2. Log!Due = Cardinality(Owed)
      BY <3>1 DEF Log!Due, Logs, IInv, OwedInv
    <3>3. Cardinality(Owed) < N
      <4>1. IsFiniteSet(Threads) /\ Cardinality(Threads) = N
        BY FS_Interval
      <4>2. Owed \subseteq Threads /\ Owed # Threads
        BY <3>1 DEF Owed
      <4>3. Cardinality(Owed) # N
        BY <4>1, <4>2, FS_Subset
      <4> QED BY <4>3, OwedIsFinite
    <3> QED BY <2>0, <2>3, <3>1, <3>2, <3>3 DEF AtomicInc, Log!Count, Logs
  <2>4. ASSUME NEW t \in Threads, LogCount(t) PROVE Log!Tick
    <3>1. driver = "atomic" /\ t \in Owed
      BY <2>4 DEF LogCount, Goto, Owed, IInv, LockInv, RoleInv
    <3>2. Log!Due = Cardinality(Owed) /\ Log!Ahead(etx_global_variable, lines) = Cardinality(Owed)
      BY <3>1 DEF Log!Due, Logs, IInv, OwedInv
    <3>3. Cardinality(Owed) \in Nat \ {0}
      BY <3>1, OwedIsFinite, FS_EmptySet
    <3> QED BY <2>0, <2>4, <3>1, <3>2, <3>3 DEF LogCount, Log!Tick, Logs
  <2>5. ASSUME NEW t \in Threads, Thread(t) PROVE (Log!Count \/ Log!Tick) \/ UNCHANGED Mapped
    BY <2>0, <2>1, <2>2, <2>3, <2>4, <2>5 DEF Thread, Writer, Reader, Atomic, Loop, Msleep,
       WriteLock, Load, WriteUnlock, ReadLock, ReadSeqbegin, ReadValue, ReadSeqretry, ShowValue,
       ReadUnlock, Data
  <2> QED BY <2>0, <2>5 DEF Next, vars, KthreadRun, Rmmod, KthreadStop, KthreadJoin, Data
<1> QED BY <1>1, <1>2, Invariant, PTL DEF Spec, TickerSpec, Log!Spec

-----------------------------------------------------------------------------
(* The button and the LED: the inductive invariant *)

Busy == {"store", "set"}
Setting == \E c \in Cpus : toggling[c] = "set"

\* The function runs only where the kernel may run it.
Placed == \A c \in Cpus : toggling[c] # "idle" => c \in Places

\* Only softirqs overlap.
OnlySoftirqsRace == overlapped => ledDriver = "softirq"

\* Until two runs overlap, one of them at a time has a new value in its hand.
OneAtATime ==
  ~overlapped => \A c, o \in Cpus : toggling[c] \in Busy /\ toggling[o] \in Busy => c = o

\* That value is the other one, and then the one led_toggle has.
InHand ==
  ~overlapped => \A c \in Cpus :
    /\ toggling[c] = "store" => next[c] = 1 - led_toggle
    /\ toggling[c] = "set"   => next[c] = led_toggle

\* led_toggle is ahead of the completed runs while one of them sets the LED.
Parity == ~overlapped => led_toggle = (IF Setting THEN runs + 1 ELSE runs) % 2

Shown == ~overlapped /\ ~manual /\ ~Setting => led = led_toggle

\* old_jiffie is the time of the last valid edge, as jiffies showed it.
Stamped ==
  accepted # -1 => accepted <= now /\ old_jiffie = (FirstJiffy + accepted) % Wrap

LedInv == LedTypeOK /\ Placed /\ OnlySoftirqsRace /\ OneAtATime /\ InHand /\ Parity /\ Shown

-----------------------------------------------------------------------------
(* Places, parities and wraps *)

\* Without softirqs there is one place to run in.
LEMMA PlacesAreCpus ==
  /\ Places \subseteq Cpus
  /\ ledDriver # "softirq" => \A c, o \in Places : c = o
BY CpusAssumption DEF Places

\* Parities alternate, and jiffies stays below its wrap.
LEMMA TypesOfTime ==
  /\ \A n \in Nat : n % 2 \in {0, 1} /\ (n + 1) % 2 = 1 - (n % 2)
  /\ \A n \in Nat : (FirstJiffy + n) % Wrap \in 0..Wrap - 1
BY TimeAssumption

\* Two readings of a counter that wraps tell no more time than has passed.
LEMMA WrapShortens ==
  ASSUME NEW w \in Nat \ {0}, NEW a \in Nat, NEW b \in Nat, b <= a
  PROVE  ((a % w) - (b % w)) % w <= a - b
<1> DEFINE d == (a % w) - (b % w)
           t == (a \div w) - (b \div w)
<1>1. ASSUME NEW n \in Nat
      PROVE  n = w * (n \div w) + (n % w) /\ n % w \in 0..w - 1 /\ n \div w \in Int
  <2>1. n % w \in 0..w - 1
    OBVIOUS
  <2>2. n \div w \in Int
    OBVIOUS
  <2>3. n = w * (n \div w) + (n % w)
    OBVIOUS
  <2> QED BY <2>1, <2>2, <2>3
<1>2. d \in Int /\ -w < d /\ d < w /\ t \in Int
  BY <1>1
<1>3. a - b = w * t + d
  BY <1>1
<1>4. CASE d >= 0
  <2>1. d % w = d
    BY <1>2, <1>4
  <2>2. t >= 0
    <3>1. CASE t <= -1
      <4>1. w * t <= -w
        BY <1>2, <3>1
      <4> QED BY <1>2, <1>3, <4>1
    <3> QED BY <1>2, <3>1
  <2>3. w * t >= 0
    BY <1>2, <2>2
  <2> HIDE DEF d, t
  <2>4. d % w <= a - b
    BY <1>2, <1>3, <2>1, <2>3
  <2> QED BY <2>4 DEF d
<1>5. CASE d < 0
  <2>1. d % w = d + w
    BY <1>2, <1>5
  <2>2. t >= 1
    <3>1. CASE t <= 0
      <4>1. w * t <= 0
        BY <1>2, <3>1
      <4> QED BY <1>2, <1>3, <1>5, <4>1
    <3> QED BY <1>2, <3>1
  <2>3. w * t >= w
    BY <1>2, <2>2
  <2> HIDE DEF d, t
  <2>4. d % w <= a - b
    BY <1>2, <1>3, <2>1, <2>3
  <2> QED BY <2>4 DEF d
<1> QED BY <1>2, <1>4, <1>5

-----------------------------------------------------------------------------
(* The inductive invariant *)

LEMMA LedStarts == LedInit => LedInv
<1> SUFFICES ASSUME LedInit PROVE LedInv
  OBVIOUS
<1>1. LedTypeOK
  <2>1. 0 \in 0..MaxTime /\ 0 \in 0..Wrap - 1 /\ -1 \in -1..MaxTime
    BY TimeAssumption
  <2> QED BY <2>1 DEF LedInit, LedTypeOK
<1>2. ~Setting
  BY DEF LedInit, Setting
<1> QED BY <1>1, <1>2
        DEF LedInv, LedInit, Placed, OnlySoftirqsRace, OneAtATime, InHand, Parity, Shown, Busy

\* Time, edges and writes of the device leave the function and led_toggle alone.
LEMMA ElsewhereKeeps ==
  ASSUME LedInv, Tick \/ EtxWrite \/ (\E c \in Cpus : Bounce(c) \/ Press(c)) \/ UNCHANGED ledVars
  PROVE  LedInv'
<1>1. UNCHANGED <<ledDriver, led_toggle, toggling, next, runs, overlapped>>
  BY DEF Tick, EtxWrite, Bounce, Press, Edge, ledVars
<1>2. (led' = led /\ manual' = manual) \/ manual'
  BY DEF Tick, EtxWrite, Bounce, Press, Edge, ledVars
<1>3. LedTypeOK'
  <2> USE DEF LedInv, LedTypeOK, irqvars
  <2>1. Places' = Places
    BY <1>1 DEF Places
  <2>2. CASE Tick
    <3>1. now' \in 0..MaxTime
      BY <2>2, TimeAssumption DEF Tick
    <3> QED BY <2>1, <2>2, <3>1 DEF Tick
  <2>3. CASE EtxWrite
    BY <2>1, <2>3 DEF EtxWrite
  <2>4. ASSUME NEW c \in Cpus, Bounce(c) PROVE LedTypeOK'
    BY <2>1, <2>4 DEF Bounce, Edge
  <2>5. ASSUME NEW c \in Cpus, Press(c) PROVE LedTypeOK'
    <3>1. jiffies \in 0..Wrap - 1
      BY TypesOfTime DEF jiffies
    <3>2. raised' \subseteq Places /\ accepted' \in -1..MaxTime
      BY <2>5 DEF Press, Edge
    <3> QED BY <2>1, <2>5, <3>1, <3>2 DEF Press, Edge
  <2>6. CASE UNCHANGED ledVars
    BY <2>1, <2>6 DEF ledVars
  <2> QED BY <2>2, <2>3, <2>4, <2>5, <2>6
<1>4. Placed' /\ OnlySoftirqsRace' /\ OneAtATime' /\ InHand' /\ Parity'
  BY <1>1 DEF LedInv, Placed, Places, OnlySoftirqsRace, OneAtATime, InHand, Parity, Setting
<1>5. Shown'
  BY <1>1, <1>2 DEF LedInv, Shown, Setting
<1> QED BY <1>3, <1>4, <1>5 DEF LedInv

LEMMA EnterKeeps ==
  ASSUME LedInv, NEW c \in Cpus, Enter(c)
  PROVE  LedInv'
<1>1. /\ UNCHANGED <<ledDriver, led_toggle, led, next, runs, manual, overlapped>>
      /\ toggling' = [toggling EXCEPT ![c] = "read"] /\ toggling[c] = "idle" /\ c \in Places
  BY DEF Enter, ToggleGoto, LedInv, LedTypeOK
<1>2. LedTypeOK'
  BY <1>1 DEF LedInv, LedTypeOK, Enter, ToggleGoto, irqvars, Places
<1>3. \A o \in Cpus : toggling'[o] \in Busy <=> toggling[o] \in Busy
  BY <1>1 DEF LedInv, LedTypeOK, Busy
<1>4. /\ \A o \in Cpus : toggling'[o] = "set" <=> toggling[o] = "set"
      /\ \A o \in Cpus : toggling'[o] = "store" <=> toggling[o] = "store"
  BY <1>1 DEF LedInv, LedTypeOK
<1>5. Setting' <=> Setting
  BY <1>4 DEF Setting
<1>6. Placed'
  BY <1>1 DEF LedInv, LedTypeOK, Placed, Places
<1>7. OnlySoftirqsRace' /\ OneAtATime' /\ InHand' /\ Parity' /\ Shown'
  BY <1>1, <1>3, <1>4, <1>5 DEF LedInv, OnlySoftirqsRace, OneAtATime, InHand, Parity, Shown
<1> QED BY <1>2, <1>6, <1>7 DEF LedInv

LEMMA ReadToggleKeeps ==
  ASSUME LedInv, NEW c \in Cpus, ReadToggle(c)
  PROVE  LedInv'
<1>1. /\ UNCHANGED <<ledDriver, led_toggle, led, runs, manual>>
      /\ toggling' = [toggling EXCEPT ![c] = "store"] /\ toggling[c] = "read"
      /\ next' = [next EXCEPT ![c] = 1 - led_toggle]
      /\ overlapped' = (overlapped \/ \E o \in Cpus \ {c} : toggling[o] \in Busy)
  BY DEF ReadToggle, ToggleGoto, Busy
<1>2. LedTypeOK'
  BY <1>1 DEF LedInv, LedTypeOK, ReadToggle, ToggleGoto, irqvars, Places
<1>3. \A o \in Cpus : toggling'[o] = IF o = c THEN "store" ELSE toggling[o]
  BY <1>1 DEF LedInv, LedTypeOK
<1>4. Setting' <=> Setting
  BY <1>1, <1>3 DEF Setting
<1>5. Placed'
  BY <1>1, <1>3 DEF LedInv, Placed, Places
<1>6. OnlySoftirqsRace'
  <2>1. \A o \in Cpus : toggling[o] \in Busy => o \in Places
    BY DEF LedInv, Placed, Busy
  <2>2. c \in Places
    BY <1>1 DEF LedInv, Placed
  <2>3. ledDriver # "softirq" => ~\E o \in Cpus \ {c} : toggling[o] \in Busy
    BY <2>1, <2>2, PlacesAreCpus
  <2> QED BY <1>1, <2>3 DEF LedInv, OnlySoftirqsRace
<1>7. ~overlapped' => ~overlapped /\ \A o \in Cpus : toggling'[o] \in Busy <=> o = c
  BY <1>1, <1>3 DEF Busy
<1>8. OneAtATime' /\ Parity' /\ Shown'
  BY <1>1, <1>4, <1>7 DEF LedInv, OneAtATime, Parity, Shown
<1>9. InHand'
  BY <1>1, <1>3, <1>7 DEF LedInv, LedTypeOK, InHand, Busy
<1> QED BY <1>2, <1>5, <1>6, <1>8, <1>9 DEF LedInv

LEMMA StoreToggleKeeps ==
  ASSUME LedInv, NEW c \in Cpus, StoreToggle(c)
  PROVE  LedInv'
<1>1. /\ UNCHANGED <<ledDriver, led, next, runs, manual, overlapped>>
      /\ toggling' = [toggling EXCEPT ![c] = "set"] /\ toggling[c] = "store"
      /\ led_toggle' = next[c]
  BY DEF StoreToggle, ToggleGoto
<1>2. LedTypeOK'
  BY <1>1 DEF LedInv, LedTypeOK, StoreToggle, ToggleGoto, irqvars, Places
<1>3. \A o \in Cpus : toggling'[o] = IF o = c THEN "set" ELSE toggling[o]
  BY <1>1 DEF LedInv, LedTypeOK
<1>4. Placed' /\ OnlySoftirqsRace' /\ OneAtATime'
  BY <1>1, <1>3 DEF LedInv, Placed, Places, OnlySoftirqsRace, OneAtATime, Busy
<1>5. ~overlapped => \A o \in Cpus : toggling[o] \in Busy => o = c
  BY <1>1 DEF LedInv, OneAtATime, Busy
<1>6. InHand'
  BY <1>1, <1>3, <1>5 DEF InHand, Busy
<1>7. Setting' /\ (~overlapped => ~Setting)
  BY <1>1, <1>3, <1>5 DEF Setting, Busy
<1>8. ~overlapped => led_toggle' = (runs + 1) % 2
  <2>1. ~overlapped => led_toggle' = 1 - (runs % 2)
    BY <1>1, <1>7 DEF LedInv, InHand, Parity
  <2> QED BY <2>1, TypesOfTime DEF LedInv, LedTypeOK
<1>9. Parity' /\ Shown'
  BY <1>1, <1>7, <1>8 DEF Parity, Shown
<1> QED BY <1>2, <1>4, <1>6, <1>9 DEF LedInv

LEMMA SetLedKeeps ==
  ASSUME LedInv, NEW c \in Cpus, SetLed(c)
  PROVE  LedInv'
<1>1. /\ UNCHANGED <<ledDriver, led_toggle, next, manual, overlapped>>
      /\ toggling' = [toggling EXCEPT ![c] = "idle"] /\ toggling[c] = "set"
      /\ led' = next[c] /\ runs' = runs + 1
  BY DEF SetLed, ToggleGoto
<1>2. LedTypeOK'
  BY <1>1 DEF LedInv, LedTypeOK, SetLed, ToggleGoto, irqvars, Places
<1>3. \A o \in Cpus : toggling'[o] = IF o = c THEN "idle" ELSE toggling[o]
  BY <1>1 DEF LedInv, LedTypeOK
<1>4. Placed' /\ OnlySoftirqsRace' /\ OneAtATime' /\ InHand'
  BY <1>1, <1>3 DEF LedInv, Placed, Places, OnlySoftirqsRace, OneAtATime, InHand, Busy
<1>5. Setting /\ (~overlapped => ~Setting')
  BY <1>1, <1>3 DEF LedInv, OneAtATime, Setting, Busy
<1>6. ~overlapped => led_toggle = (runs + 1) % 2 /\ next[c] = led_toggle
  BY <1>1, <1>5 DEF LedInv, Parity, InHand
<1>7. Parity' /\ Shown'
  BY <1>1, <1>5, <1>6 DEF Parity, Shown
<1> QED BY <1>2, <1>4, <1>7 DEF LedInv

\* Every step keeps the invariant.
LEMMA LedSteps == LedInv /\ [LedNext]_ledVars => LedInv'
BY ElsewhereKeeps, EnterKeeps, ReadToggleKeeps, StoreToggleKeeps, SetLedKeeps DEF LedNext

\* What the toggling function holds, led_toggle and the LED agree in every behaviour.
THEOREM LedInvariant == LedSpec => []LedInv
BY LedStarts, LedSteps, PTL DEF LedSpec

-----------------------------------------------------------------------------
(* The properties *)

\* Type correctness of the three drivers.
THEOREM LedIsTyped == LedSpec => []LedTypeOK
BY LedInvariant, PTL DEF LedInv

\* gpio_irq_handler, the softirq or the thread toggles led_toggle once for each run
\* that completes, whatever edges, time and writes come between.
THEOREM RunsToggle == LedSpec => []EveryRunToggles
<1>1. LedInv => EveryRunToggles
  <2> SUFFICES ASSUME LedInv, Idle, ~overlapped PROVE led_toggle = runs % 2
    BY DEF LedInv, OnlySoftirqsRace, EveryRunToggles, MayHaveRaced
  <2>1. ~Setting
    BY DEF Idle, Setting
  <2> QED BY <2>1 DEF LedInv, Parity
<1> QED BY LedInvariant, <1>1, PTL

\* GPIO 21 shows led_toggle whenever the function is at rest.
THEOREM LedFollows == LedSpec => []LedFollowsToggle
<1>1. LedInv => LedFollowsToggle
  <2> SUFFICES ASSUME LedInv, Idle, ~manual, ~overlapped PROVE led = led_toggle
    BY DEF LedInv, OnlySoftirqsRace, LedFollowsToggle, MayHaveRaced
  <2>1. ~Setting
    BY DEF Idle, Setting
  <2> QED BY <2>1 DEF LedInv, Shown
<1> QED BY LedInvariant, <1>1, PTL

\* Only a valid edge changes old_jiffie.
LEMMA StampedHolds == LedSpec => []Stamped
<1>1. LedInit => Stamped
  BY DEF LedInit, Stamped
<1>2. LedInv /\ Stamped /\ [LedNext]_ledVars => Stamped'
  <2> SUFFICES ASSUME LedInv, Stamped, [LedNext]_ledVars PROVE Stamped'
    OBVIOUS
  <2> USE DEF LedInv, LedTypeOK, Stamped, irqvars
  <2>1. CASE Tick
    BY <2>1 DEF Tick
  <2>2. ASSUME NEW c \in Cpus, Press(c) PROVE Stamped'
    BY <2>2 DEF Press, Edge, jiffies
  <2>3. ASSUME NEW c \in Cpus,
               Bounce(c) \/ Enter(c) \/ ReadToggle(c) \/ StoreToggle(c) \/ SetLed(c)
        PROVE  Stamped'
    BY <2>3 DEF Bounce, Edge, Enter, ReadToggle, StoreToggle, SetLed, ToggleGoto
  <2>4. CASE EtxWrite \/ UNCHANGED ledVars
    BY <2>4 DEF EtxWrite, ledVars
  <2> QED BY <2>1, <2>2, <2>3, <2>4 DEF LedNext
<1> QED BY LedInvariant, <1>1, <1>2, PTL DEF LedSpec

\* gpio_irq_handler lets an edge pass only when Debounce jiffies have gone by since
\* the last it let pass, for every width of jiffies and over every wrap.
THEOREM EdgesAreApart == LedSpec => QuietPeriod
<1>1. LedInv /\ Stamped /\ [LedNext]_ledVars
      => [\A c \in Cpus : Press(c) => accepted = -1 \/ now - accepted >= Debounce]_ledVars
  <2> SUFFICES ASSUME LedInv, Stamped, NEW c \in Cpus, Press(c), accepted # -1
               PROVE  now - accepted >= Debounce
    OBVIOUS
  <2>1. /\ now \in Nat /\ accepted \in Nat /\ accepted <= now
        /\ old_jiffie = (FirstJiffy + accepted) % Wrap
        /\ FirstJiffy \in Nat /\ Wrap \in Nat \ {0} /\ Debounce \in Nat
    BY TimeAssumption DEF LedInv, LedTypeOK, Stamped
  <2>2. (((FirstJiffy + now) % Wrap) - old_jiffie) % Wrap
          <= (FirstJiffy + now) - (FirstJiffy + accepted)
    <3> DEFINE a == FirstJiffy + now
               b == FirstJiffy + accepted
    <3>1. a \in Nat /\ b \in Nat /\ b <= a
      BY <2>1
    <3> HIDE DEF a, b
    <3>2. ((a % Wrap) - (b % Wrap)) % Wrap <= a - b
      BY <2>1, <3>1, WrapShortens
    <3> QED BY <2>1, <3>2 DEF a, b
  <2>3. diff >= Debounce /\ diff \in Int
    BY <2>1, TypesOfTime, TimeAssumption DEF Press, diff, jiffies
  <2> QED BY <2>1, <2>2, <2>3 DEF diff, jiffies
<1> QED BY LedInvariant, StampedHolds, <1>1, PTL DEF LedSpec, QuietPeriod
=============================================================================

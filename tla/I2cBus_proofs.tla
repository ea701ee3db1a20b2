--------------------------- MODULE I2cBus_proofs ---------------------------
(***************************************************************************)
(* The sensor of 40_bmp280_i2c, and the bus of 31_real_i2c_bus_driver.     *)
(*                                                                         *)
(* The sensor's registers and the probe's place in its fixed list of       *)
(* accesses are tied together: with so many accesses left, so much of the  *)
(* configuration stands.  The list is cut from the end (ProbeLeft), so     *)
(* that going on is one step from k to k - 1, and what an access is tells  *)
(* where the probe is (ProbeAt).                                           *)
(*                                                                         *)
(* The pin operations of the bus are counted from the end in the same way  *)
(* (BeginLeft, FrameLeft, StopLeft).  Wires says what every position makes *)
(* of the two wires and of the slave, Delivery which bytes the slave has   *)
(* taken by then and what it takes the next one for.                       *)
(***************************************************************************)
EXTENDS I2cBus, Bmp280, SequenceTheorems, TLAPS

-----------------------------------------------------------------------------
(* The sensor *)

Accesses == Reads \cup Writes
Regs     == [mode : Modes, config : Config]
Readings == [from : {"none"} \cup Registers, mixed : BOOLEAN]

\* What the probe has yet to do when k of its accesses are left.
ProbeLeft(k) == SubSeq(Probe, 13 - k, 12)
RemoveLeft(k) == SubSeq(Remove, 4 - k, 3)

SensorTypeOK ==
  /\ bmpState \in {"unloaded", "probing", "bound", "unbound", "removing"}
  /\ bmpTodo \in [Threads -> Seq(Accesses)]
  /\ bmpHalf \in [Threads -> {"none", "sent", "failed"}]
  /\ bmpMixed \in [Threads -> BOOLEAN]
  /\ bmpTry \in Nat
  /\ conf \in Config /\ dev \in [conf : Config, calib : Readings]
  /\ temp \in Regs /\ regs \in Regs
  /\ ucomp \in Readings
  /\ pointer \in Registers

\* Readers take measures; the thread of insmod and rmmod is on its way through the
\* probe or the remove function, or out of them.
Schedule ==
  /\ \A r \in Readers : bmpTodo[r] \in {<<>>, <<"press">>}
  /\ bmpState = "probing" => \E k \in 1..12 : bmpTodo[Core] = ProbeLeft(k)
  /\ bmpState = "removing" => \E k \in 1..3 : bmpTodo[Core] = RemoveLeft(k)
  /\ bmpState \notin {"probing", "removing"} => bmpTodo[Core] = <<>>
  /\ Doing(Core, {"id"}) => bmpTry > 0

\* A read that was begun has its address in the sensor, unless it was mixed.
Addressed ==
  \A t \in Threads :
    /\ bmpHalf[t] # "none" => Doing(t, Reads)
    /\ bmpHalf[t] = "sent" /\ ~bmpMixed[t] => pointer = Address(Head(bmpTodo[t]))

\* What the probe has done with k accesses left.
Probed(k) ==
  /\ k <= 8 => conf = Asked(conf)
  /\ k <= 5 => dev.conf = Asked(dev.conf)
  /\ k <= 2 => regs.config = dev.conf
  /\ k <= 1 => regs.mode = "normal"

ProbeHolds ==
  /\ bmpState = "probing" => \A k \in 1..12 : bmpTodo[Core] = ProbeLeft(k) => Probed(k)
  /\ bmpState = "bound" => Probed(0)

SensorSound == SensorTypeOK /\ Schedule /\ Addressed /\ MeasuresAreGenuine /\ ProbeHolds

\* The end of a sequence.
LEMMA EndOf ==
  ASSUME NEW T, NEW s \in Seq(T), NEW size \in Nat, Len(s) = size, NEW k \in 0..size
  PROVE  /\ SubSeq(s, size + 1 - k, size) \in Seq(T) /\ Len(SubSeq(s, size + 1 - k, size)) = k
         /\ \A j \in 1..k : SubSeq(s, size + 1 - k, size)[j] = s[size - k + j]
<1> DEFINE m == size + 1 - k
<1>1. m \in Nat /\ 1 <= m /\ size - m + 1 = k  OBVIOUS
<1>2. \A j \in 1..k : m + j - 1 = size - k + j /\ size - k + j \in 1..Len(s)  OBVIOUS
<1>3. \A j \in m..size : s[j] \in T  BY <1>1
<1> HIDE DEF m
<1>4. /\ SubSeq(s, m, size) \in Seq(T) /\ Len(SubSeq(s, m, size)) = k
      /\ \A j \in 1..k : SubSeq(s, m, size)[j] = s[m + j - 1]
  BY <1>1, <1>3
<1> QED  BY <1>2, <1>4 DEF m

\* The probe, access by access.
LEMMA ProbeIs ==
  /\ Probe \in Seq(Accesses) /\ Len(Probe) = 12
  /\ Probe[1] = "id" /\ Probe[2] = "reset" /\ Probe[3] = "calib" /\ Probe[4] = "config"
  /\ Probe[5] = "ctrl" /\ Probe[6] = "reset" /\ Probe[7] = "conf"
  /\ Probe[8] = "ctrl" /\ Probe[9] = "reset" /\ Probe[10] = "dev.conf" /\ Probe[11] = "mode"
  /\ Probe[12] = "press"
<1>1. Len(Probe) = 12
  BY DEF Probe, BmpInit, ConfSensor
<1>2. Probe[1] = "id" /\ Probe[2] = "reset" /\ Probe[3] = "calib" /\ Probe[4] = "config"
  BY DEF Probe, BmpInit, ConfSensor
<1>3. Probe[5] = "ctrl" /\ Probe[6] = "reset" /\ Probe[7] = "conf" /\ Probe[8] = "ctrl"
  BY DEF Probe, BmpInit, ConfSensor
<1>4. /\ Probe[9] = "reset" /\ Probe[10] = "dev.conf" /\ Probe[11] = "mode"
      /\ Probe[12] = "press"
  BY DEF Probe, BmpInit, ConfSensor
<1>5. Probe \in Seq(Accesses)
  BY DEF Probe, BmpInit, ConfSensor, Accesses, Reads, Writes
<1> QED  BY <1>1, <1>2, <1>3, <1>4, <1>5

\* The remove function, access by access.
LEMMA RemoveIs ==
  /\ Remove \in Seq(Accesses) /\ Len(Remove) = 3
  /\ Remove[1] = "ctrl" /\ Remove[2] = "reset" /\ Remove[3] = "dev.conf"
BY DEF Remove, ConfSensor, Accesses, Reads, Writes

\* The end of a sequence of which k elements are left begins with the k-th from the
\* end, and its tail is the end of which k - 1 are left.
LEMMA EndSteps ==
  ASSUME NEW T, NEW s \in Seq(T), NEW size \in Nat, Len(s) = size, NEW k \in 1..size
  PROVE  /\ SubSeq(s, size + 1 - k, size) # <<>>
         /\ Head(SubSeq(s, size + 1 - k, size)) = s[size + 1 - k]
         /\ Tail(SubSeq(s, size + 1 - k, size)) = SubSeq(s, size + 1 - (k - 1), size)
         /\ SubSeq(s, size + 1, size) = <<>> /\ SubSeq(s, 1, size) = s
<1> DEFINE l == SubSeq(s, size + 1 - k, size)
           m == SubSeq(s, size + 1 - (k - 1), size)
<1>1. /\ l \in Seq(T) /\ Len(l) = k
      /\ \A j \in 1..k : l[j] = s[size - k + j]
  BY EndOf
<1>2. k - 1 \in 0..size  OBVIOUS
<1>3. /\ m \in Seq(T) /\ Len(m) = k - 1
      /\ \A j \in 1..(k - 1) : m[j] = s[size - (k - 1) + j]
  BY <1>2, EndOf
<1>4. SubSeq(s, size + 1, size) = <<>> /\ SubSeq(s, 1, size) = s
  OBVIOUS
<1> HIDE DEF l, m
<1>5. l # <<>> /\ Head(l) = s[size + 1 - k]
  <2>1. size - k + 1 = size + 1 - k  OBVIOUS
  <2> QED  BY <1>1, <2>1
<1>6. /\ Tail(l) \in Seq(T) /\ Len(Tail(l)) = k - 1
      /\ \A j \in 1..(k - 1) : Tail(l)[j] = l[j + 1]
  BY <1>1, <1>5
<1>7. ASSUME NEW j \in 1..(k - 1) PROVE l[j + 1] = m[j]
  <2>1. j + 1 \in 1..k /\ size - k + (j + 1) = size - (k - 1) + j
    OBVIOUS
  <2>2. l[j + 1] = s[size - k + (j + 1)]  BY <1>1, <2>1
  <2>3. m[j] = s[size - (k - 1) + j]  BY <1>3
  <2> QED  BY <2>1, <2>2, <2>3
<1>8. Tail(l) = m
  BY <1>2, <1>3, <1>6, <1>7
<1> QED  BY <1>4, <1>5, <1>8 DEF l, m

\* One step along the probe, and along the remove function.
LEMMA ProbeSteps ==
  ASSUME NEW k \in 1..12
  PROVE  /\ ProbeLeft(k) # <<>> /\ Len(ProbeLeft(k)) = k /\ ProbeLeft(k) \in Seq(Accesses)
         /\ Head(ProbeLeft(k)) = Probe[13 - k]
         /\ Tail(ProbeLeft(k)) = ProbeLeft(k - 1)
         /\ ProbeLeft(0) = <<>> /\ ProbeLeft(12) = Probe
<1> DEFINE size == 12
<1>1. size \in Nat /\ Probe \in Seq(Accesses) /\ Len(Probe) = size /\ k \in 1..size
  BY ProbeIs
<1>2. size + 1 = 13 /\ 13 - 12 = 1 /\ 13 - 0 = 13 /\ k \in 0..size  OBVIOUS
<1> HIDE DEF size
<1>3. /\ SubSeq(Probe, size + 1 - k, size) # <<>>
      /\ Head(SubSeq(Probe, size + 1 - k, size)) = Probe[size + 1 - k]
      /\ Tail(SubSeq(Probe, size + 1 - k, size)) = SubSeq(Probe, size + 1 - (k - 1), size)
      /\ SubSeq(Probe, size + 1, size) = <<>> /\ SubSeq(Probe, 1, size) = Probe
      /\ SubSeq(Probe, size + 1 - k, size) \in Seq(Accesses)
      /\ Len(SubSeq(Probe, size + 1 - k, size)) = k
  BY <1>1, <1>2, EndOf, EndSteps
<1> QED  BY <1>2, <1>3 DEF size, ProbeLeft

\* ... and one along the remove function.
LEMMA RemoveSteps ==
  ASSUME NEW k \in 1..3
  PROVE  /\ RemoveLeft(k) # <<>> /\ Len(RemoveLeft(k)) = k /\ RemoveLeft(k) \in Seq(Accesses)
         /\ Tail(RemoveLeft(k)) = RemoveLeft(k - 1)
         /\ Head(RemoveLeft(k)) = Remove[4 - k]
         /\ RemoveLeft(0) = <<>> /\ RemoveLeft(3) = Remove
<1> DEFINE size == 3
<1>1. size \in Nat /\ Remove \in Seq(Accesses) /\ Len(Remove) = size /\ k \in 1..size
  BY RemoveIs
<1>2. size + 1 = 4 /\ 4 - 3 = 1 /\ 4 - 0 = 4 /\ k \in 0..size  OBVIOUS
<1> HIDE DEF size
<1>3. /\ SubSeq(Remove, size + 1 - k, size) # <<>>
      /\ Head(SubSeq(Remove, size + 1 - k, size)) = Remove[size + 1 - k]
      /\ Tail(SubSeq(Remove, size + 1 - k, size)) = SubSeq(Remove, size + 1 - (k - 1), size)
      /\ SubSeq(Remove, size + 1, size) = <<>> /\ SubSeq(Remove, 1, size) = Remove
      /\ SubSeq(Remove, size + 1 - k, size) \in Seq(Accesses)
      /\ Len(SubSeq(Remove, size + 1 - k, size)) = k
  BY <1>1, <1>2, EndOf, EndSteps
<1> QED  BY <1>2, <1>3 DEF size, RemoveLeft

\* Which access it is tells where the probe is.
LEMMA ProbeAt ==
  ASSUME NEW k \in 1..12
  PROVE  /\ Probe[13 - k] \in Accesses
         /\ Probe[13 - k] = "id" => k = 12
         /\ Probe[13 - k] = "calib" => k = 10
         /\ Probe[13 - k] = "config" => k = 9
         /\ Probe[13 - k] = "conf" => k = 6
         /\ Probe[13 - k] = "dev.conf" => k = 3
         /\ Probe[13 - k] = "mode" => k = 2
         /\ Probe[13 - k] = "press" => k = 1
         /\ Probe[13 - k] \in {"ctrl", "reset"} => k \in {11, 8, 7, 5, 4}
<1> DEFINE p == Probe
<1>1. /\ p[1] = "id" /\ p[2] = "reset" /\ p[3] = "calib" /\ p[4] = "config"
      /\ p[5] = "ctrl" /\ p[6] = "reset" /\ p[7] = "conf"
      /\ p[8] = "ctrl" /\ p[9] = "reset" /\ p[10] = "dev.conf" /\ p[11] = "mode"
      /\ p[12] = "press"
  BY ProbeIs
<1> HIDE DEF p
<1>2. \/ k = 1 /\ p[13 - k] = "press"
      \/ k = 2 /\ p[13 - k] = "mode"
      \/ k = 3 /\ p[13 - k] = "dev.conf"
      \/ k \in {4, 7, 11} /\ p[13 - k] = "reset"
      \/ k \in {5, 8} /\ p[13 - k] = "ctrl"
      \/ k = 6 /\ p[13 - k] = "conf"
      \/ k = 9 /\ p[13 - k] = "config"
      \/ k = 10 /\ p[13 - k] = "calib"
      \/ k = 12 /\ p[13 - k] = "id"
  BY <1>1
<1>3. p[13 - k] \in Accesses
  BY <1>2 DEF Accesses, Reads, Writes
<1> QED  BY <1>2, <1>3 DEF p

\* What the thread that has something to do is doing, and what is left after it.
LEMMA Scheduled ==
  ASSUME SensorTypeOK, Schedule, NEW t \in Threads, bmpTodo[t] # <<>>
  PROVE  /\ t # Core => bmpTodo[t] = <<"press">> /\ Tail(bmpTodo[t]) = <<>>
         /\ t = Core => \/ /\ bmpState = "probing"
                           /\ \E k \in 1..12 :
                                /\ bmpTodo[t] = ProbeLeft(k) /\ Len(bmpTodo[t]) = k
                                /\ Head(bmpTodo[t]) = Probe[13 - k]
                                /\ Tail(bmpTodo[t]) = ProbeLeft(k - 1)
                        \/ /\ bmpState = "removing"
                           /\ \E k \in 1..3 :
                                /\ bmpTodo[t] = RemoveLeft(k) /\ Len(bmpTodo[t]) = k
                                /\ Head(bmpTodo[t]) = Remove[4 - k]
                                /\ Tail(bmpTodo[t]) = RemoveLeft(k - 1)
<1>1. CASE t # Core
  <2>1. t \in Readers  BY <1>1 DEF Threads
  <2>2. bmpTodo[t] = <<"press">>  BY <2>1 DEF Schedule
  <2> QED  BY <1>1, <2>2
<1>2. CASE t = Core /\ bmpState = "probing"
  <2>1. PICK k \in 1..12 : bmpTodo[t] = ProbeLeft(k)  BY <1>2 DEF Schedule
  <2> QED  BY <1>2, <2>1, ProbeSteps
<1>3. CASE t = Core /\ bmpState = "removing"
  <2>1. PICK k \in 1..3 : bmpTodo[t] = RemoveLeft(k)  BY <1>3 DEF Schedule
  <2> QED  BY <1>3, <2>1, RemoveSteps
<1>4. t = Core => bmpState \in {"probing", "removing"}  BY DEF Schedule
<1> QED  BY <1>1, <1>2, <1>3, <1>4

\* Where the probe is, it is doing one thing.
LEMMA OnePlace ==
  ASSUME NEW k \in 1..12, NEW j \in 1..12, ProbeLeft(k) = ProbeLeft(j)
  PROVE  k = j
BY ProbeSteps

\* The end of an access, of the probe or of the remove function keeps the schedule.
LEMMA ScheduleIsKept ==
  ASSUME SensorTypeOK, Schedule, NEW t \in Threads, bmpTodo[t] # <<>>,
         Goes(t) \/ GivesUp(t), bmpTry' = bmpTry \/ (t = Core /\ GivesUp(t))
  PROVE  /\ bmpTodo' \in [Threads -> Seq(Accesses)]
         /\ bmpState' \in {"unloaded", "probing", "bound", "unbound", "removing"}
         /\ \A u \in Threads \ {t} : bmpTodo'[u] = bmpTodo[u]
         /\ Schedule'
<1>1. bmpTodo \in [Threads -> Seq(Accesses)] /\ Core \in Threads
  BY DEF SensorTypeOK, Threads
<1>2. bmpTodo[t] \in Seq(Accesses) /\ Tail(bmpTodo[t]) \in Seq(Accesses) /\ <<>> \in Seq(Accesses)
  BY <1>1
<1>3. bmpTodo' = [bmpTodo EXCEPT ![t] = Tail(bmpTodo[t])] \/ bmpTodo' = [bmpTodo EXCEPT ![t] = <<>>]
  BY DEF Goes, GivesUp
<1>4. bmpTodo' \in [Threads -> Seq(Accesses)]
  BY <1>1, <1>2, <1>3
<1>5. \A u \in Threads \ {t} : bmpTodo'[u] = bmpTodo[u]
  BY <1>1, <1>3
<1>6. bmpState' \in {"unloaded", "probing", "bound", "unbound", "removing"}
  BY DEF Goes, GivesUp, SensorTypeOK
<1> SUFFICES Schedule'  BY <1>4, <1>5, <1>6
<1>7. CASE t # Core
  <2>1. bmpState' = bmpState /\ bmpTodo'[Core] = bmpTodo[Core] /\ bmpTry' = bmpTry
    BY <1>1, <1>5, <1>7 DEF Goes, GivesUp
  <2>2. bmpTodo'[t] = <<>>
    BY <1>1, <1>3, <1>7, Scheduled
  <2>3. \A r \in Readers : bmpTodo'[r] \in {<<>>, <<"press">>}
    BY <1>5, <2>2 DEF Schedule, Threads
  <2> QED  BY <2>1, <2>3 DEF Schedule, Doing
<1>8. CASE t = Core
  <2>1. \A r \in Readers : bmpTodo'[r] \in {<<>>, <<"press">>}
    <3>1. \A r \in Readers : r \in Threads \ {t}
      BY <1>8, SensorAssumption DEF Threads
    <3> QED  BY <1>5, <3>1 DEF Schedule
  <2>2. CASE GivesUp(t)
    <3>1. bmpTodo'[Core] = <<>> /\ bmpState' \notin {"probing", "removing"}
      BY <1>1, <1>8, <2>2 DEF GivesUp
    <3> QED  BY <2>1, <3>1 DEF Schedule, Doing
  <2>3. CASE Goes(t) /\ bmpState = "probing"
    <3>1. PICK k \in 1..12 : /\ bmpTodo[t] = ProbeLeft(k) /\ Len(bmpTodo[t]) = k
                             /\ Tail(bmpTodo[t]) = ProbeLeft(k - 1)
      BY <1>8, <2>3, Scheduled
    <3>2. bmpTodo'[Core] = ProbeLeft(k - 1)
      BY <1>1, <1>8, <2>3, <3>1 DEF Goes
    <3>3. CASE k = 1
      <4>1. bmpState' = "bound" /\ bmpTodo'[Core] = <<>>
        <5>1. ProbeLeft(0) = <<>>  BY ProbeSteps
        <5> QED  BY <1>8, <2>3, <3>1, <3>2, <3>3, <5>1 DEF Goes
      <4> QED  BY <2>1, <4>1 DEF Schedule, Doing
    <3>4. CASE k > 1
      <4>1. k - 1 \in 1..12 /\ k - 1 # 12 /\ bmpState' = "probing"
        BY <1>8, <2>3, <3>1, <3>4 DEF Goes
      <4>2. Head(bmpTodo'[Core]) = Probe[13 - (k - 1)]
        BY <3>2, <4>1, ProbeSteps
      <4>3. Head(bmpTodo'[Core]) # "id"
        BY <4>1, <4>2, ProbeAt
      <4> QED  BY <2>1, <3>2, <4>1, <4>3 DEF Schedule, Doing
    <3> QED  BY <3>3, <3>4
  <2>4. CASE Goes(t) /\ bmpState # "probing"
    <3>1. PICK k \in 1..3 : /\ bmpTodo[t] = RemoveLeft(k) /\ Len(bmpTodo[t]) = k
                            /\ Tail(bmpTodo[t]) = RemoveLeft(k - 1) /\ bmpState = "removing"
      BY <1>8, <2>4, Scheduled
    <3>2. bmpTodo'[Core] = RemoveLeft(k - 1)
      BY <1>1, <1>8, <2>4, <3>1 DEF Goes
    <3>3. CASE k = 1
      <4>1. bmpState' = "unloaded" /\ bmpTodo'[Core] = <<>>
        BY <1>8, <2>4, <3>1, <3>2, <3>3, RemoveSteps DEF Goes
      <4> QED  BY <2>1, <4>1 DEF Schedule, Doing
    <3>4. CASE k > 1
      <4>1. k - 1 \in 1..3 /\ bmpState' = "removing"
        BY <1>8, <2>4, <3>1, <3>4 DEF Goes
      <4>2. Head(bmpTodo'[Core]) = Remove[4 - (k - 1)] /\ (k - 1 = 1 \/ k - 1 = 2)
        BY <3>2, <3>4, <4>1, RemoveSteps
      <4>3. Head(bmpTodo'[Core]) # "id"
        BY <4>2, RemoveIs
      <4> QED  BY <2>1, <3>2, <4>1, <4>3 DEF Schedule, Doing
    <3> QED  BY <3>3, <3>4
  <2> QED  BY <2>2, <2>3, <2>4
<1> QED  BY <1>7, <1>8

\* What a write leaves in the sensor, completed or not, are registers.
LEMMA EffectsAre ==
  ASSUME SensorTypeOK, NEW access \in Writes
  PROVE  /\ \A k \in DOMAIN Effects(access) : Effects(access)[k] \in Regs
         /\ Effects(access)[Len(Effects(access))] \in Regs
         /\ access = "dev.conf" =>
              Effects(access)[Len(Effects(access))].config = dev.conf
         /\ access = "mode" =>
              /\ Effects(access)[Len(Effects(access))].mode = "normal"
              /\ regs.config = dev.conf =>
                   Effects(access)[Len(Effects(access))].config = dev.conf
<1>1. /\ conf \in Config /\ dev \in [conf : Config, calib : Readings]
      /\ temp \in Regs /\ regs \in Regs
  BY DEF SensorTypeOK
<1>2. ResetRegs \in Regs
  BY DEF ResetRegs, ResetConfig, Regs, Modes, Config
<1>3. ASSUME NEW c \in Config
      PROVE  /\ Written(c) \in Regs /\ Written(c).config = c
             /\ CtrlMeasOnly(c) \in Regs /\ CtrlMeasOnly(c).config \in Config
             /\ regs.config = c => CtrlMeasOnly(c).config = c
  <2>1. temp.mode \in Modes /\ regs.config \in Config  BY <1>1 DEF Regs
  <2>2. Written(c) \in Regs /\ Written(c).config = c
    BY <2>1 DEF Written, Regs
  <2>3. [regs.config EXCEPT !.os_temp = c.os_temp, !.os_pres = c.os_pres] \in Config
    BY <2>1 DEF Config
  <2>4. regs.config = c =>
          [regs.config EXCEPT !.os_temp = c.os_temp, !.os_pres = c.os_pres] = c
    BY <2>1 DEF Config
  <2> QED  BY <2>1, <2>2, <2>3, <2>4 DEF CtrlMeasOnly, Regs
<1>4. CASE access = "reset"
  BY <1>2, <1>4 DEF Effects
<1>5. CASE access = "mode"
  <2>1. dev.conf \in Config  BY <1>1
  <2> DEFINE e == [mode |-> "normal", config |-> CtrlMeasOnly(dev.conf).config]
  <2>2. e \in Regs /\ e.mode = "normal" /\ (regs.config = dev.conf => e.config = dev.conf)
    BY <1>3, <2>1 DEF Regs, Modes
  <2>3. Effects(access) = <<e>>
    BY <1>5 DEF Effects
  <2> HIDE DEF e
  <2>4. Len(Effects(access)) = 1 /\ Effects(access)[1] = e /\ DOMAIN Effects(access) = {1}
    BY <2>3
  <2> QED  BY <1>5, <2>2, <2>4
<1>6. CASE access \in {"conf", "dev.conf"}
  <2>1. Source(access) \in Config /\ (access = "dev.conf" => Source(access) = dev.conf)
    BY <1>1 DEF Source
  <2> DEFINE e == CtrlMeasOnly(Source(access))
             f == Written(Source(access))
  <2>2. e \in Regs /\ f \in Regs /\ f.config = Source(access)
    BY <1>3, <2>1
  <2>3. Effects(access) = <<e, f>>
    BY <1>6 DEF Effects
  <2> HIDE DEF e, f
  <2> QED  BY <1>6, <2>1, <2>2, <2>3
<1> QED  BY <1>4, <1>5, <1>6 DEF Writes

\* A thread whose read has begun and that does not go on in this step has its
\* address in the sensor still, or its read is mixed now.
LEMMA AddressedIsKept ==
  ASSUME SensorTypeOK, Addressed, NEW t \in Threads, FallsBetween(t),
         \A u \in Threads \ {t} : bmpHalf'[u] = bmpHalf[u] /\ bmpTodo'[u] = bmpTodo[u],
         bmpHalf'[t] = "none"
  PROVE  Addressed' /\ bmpMixed' \in [Threads -> BOOLEAN]
<1>1. bmpMixed' = [u \in Threads |-> u # t /\ (bmpMixed[u] \/ bmpHalf[u] # "none")]
  BY DEF FallsBetween
<1>2. bmpMixed' \in [Threads -> BOOLEAN]
  BY <1>1
<1>3. ASSUME NEW u \in Threads, bmpHalf'[u] # "none"
      PROVE  Doing(u, Reads)' /\ bmpMixed'[u]
  <2>1. u # t /\ bmpHalf[u] # "none" /\ bmpTodo'[u] = bmpTodo[u]  BY <1>3
  <2>2. Doing(u, Reads)  BY <2>1 DEF Addressed
  <2> QED  BY <1>1, <2>1, <2>2 DEF Doing
<1> QED  BY <1>2, <1>3 DEF Addressed

\* A read that succeeds, not mixed, is received from its own registers.
LEMMA ReceivedIsGenuine ==
  ASSUME SensorTypeOK, Addressed, NEW t \in Threads, NEW access, ReceiveData(t, access, TRUE)
  PROVE  /\ bmpMixed[t] \/ pointer = Address(access)
         /\ Taken(t) \in Readings
<1>1. Doing(t, {access}) /\ bmpHalf[t] = "sent"
  BY DEF ReceiveData, Result
<1>2. bmpMixed[t] \in BOOLEAN /\ pointer \in Registers
  BY DEF SensorTypeOK
<1> QED  BY <1>1, <1>2 DEF Addressed, Taken, Readings, Doing

\* Away from the probe's own accesses nothing that it has reached is undone.
LEMMA ProbedIsKept ==
  ASSUME NEW k \in 0..12, Probed(k), UNCHANGED <<conf, dev, regs>>
  PROVE  Probed(k)'
BY DEF Probed, Asked

\* A step that leaves the probe where it is and its data alone keeps what it did.
LEMMA ReaderKeepsProbe ==
  ASSUME ProbeHolds, bmpState' = bmpState, bmpTodo'[Core] = bmpTodo[Core],
         UNCHANGED <<conf, dev, regs>>
  PROVE  ProbeHolds'
BY ProbedIsKept DEF ProbeHolds, Probed, Asked

\* Nothing is claimed of a module that is not loaded, or on its way out.
LEMMA LeavingKeepsProbe ==
  ASSUME bmpState' \notin {"probing", "bound"}
  PROVE  ProbeHolds'
BY DEF ProbeHolds

\* The probe goes on from one access to the next.
LEMMA ProbeGoesOn ==
  ASSUME SensorTypeOK, Schedule, ProbeHolds, bmpTodo[Core] # <<>>, Goes(Core),
         \A k \in 1..12 : bmpTodo[Core] = ProbeLeft(k) /\ Probed(k)
                          /\ Head(bmpTodo[Core]) = Probe[13 - k] => Probed(k - 1)'
  PROVE  ProbeHolds'
<1>0. Core \in Threads /\ bmpTodo \in [Threads -> Seq(Accesses)]
  BY DEF Threads, SensorTypeOK
<1>1. CASE bmpState # "probing"
  BY <1>1, <1>0, Scheduled, LeavingKeepsProbe DEF Goes
<1>2. CASE bmpState = "probing"
  <2>1. PICK k \in 1..12 : /\ bmpTodo[Core] = ProbeLeft(k) /\ Len(bmpTodo[Core]) = k
                           /\ Head(bmpTodo[Core]) = Probe[13 - k]
                           /\ Tail(bmpTodo[Core]) = ProbeLeft(k - 1)
    BY <1>0, <1>2, Scheduled
  <2>2. Probed(k)  BY <1>2, <2>1 DEF ProbeHolds
  <2>3. Probed(k - 1)'  BY <2>1, <2>2
  <2>4. bmpTodo'[Core] = ProbeLeft(k - 1)
    BY <1>0, <2>1 DEF Goes
  <2>5. CASE k = 1
    <3>1. bmpState' = "bound"  BY <1>2, <2>1, <2>5 DEF Goes
    <3>2. k - 1 = 0  BY <2>5
    <3> QED  BY <2>3, <3>1, <3>2 DEF ProbeHolds
  <2>6. CASE k > 1
    <3>1. bmpState' = "probing" /\ k - 1 \in 1..12  BY <1>2, <2>1, <2>6 DEF Goes
    <3>2. \A j \in 1..12 : bmpTodo'[Core] = ProbeLeft(j) => j = k - 1
      BY <2>4, <3>1, OnePlace
    <3>3. \A j \in 1..12 : bmpTodo'[Core] = ProbeLeft(j) => Probed(j)'
      BY <2>3, <3>1, <3>2
    <3> QED  BY <3>1, <3>3 DEF ProbeHolds, ProbeLeft
  <2> QED  BY <2>5, <2>6
<1> QED  BY <1>1, <1>2

\* A reader measures and does nothing else.
LEMMA ReadersOnlyMeasure ==
  ASSUME SensorTypeOK, Schedule, NEW t \in Threads, t # Core, NEW S, Doing(t, S)
  PROVE  "press" \in S
BY Scheduled DEF Doing

\* What a reception leaves.
LEMMA Received ==
  ASSUME SensorTypeOK, NEW t \in Threads, NEW access \in Reads, NEW succeeds \in BOOLEAN,
         ReceiveData(t, access, succeeds)
  PROVE  /\ bmpTodo[t] # <<>> /\ Head(bmpTodo[t]) = access
         /\ bmpHalf' \in [Threads -> {"none", "sent", "failed"}]
         /\ bmpHalf'[t] = "none" /\ \A u \in Threads \ {t} : bmpHalf'[u] = bmpHalf[u]
         /\ pointer' \in Registers
         /\ FallsBetween(t) /\ regs' = regs
<1>1. bmpHalf \in [Threads -> {"none", "sent", "failed"}] /\ pointer \in Registers
  BY DEF SensorTypeOK
<1>2. bmpHalf' = [bmpHalf EXCEPT ![t] = "none"] /\ pointer' \in {pointer, "past"}
  BY DEF ReceiveData
<1>3. pointer' \in Registers  BY <1>1, <1>2 DEF Registers
<1> QED  BY <1>1, <1>2, <1>3 DEF ReceiveData, Doing

\* An access that ends its part of the function, or the function.
LEMMA AccessEnds ==
  ASSUME SensorSound, NEW t \in Threads, bmpTodo[t] # <<>>, Goes(t) \/ GivesUp(t),
         bmpTry' \in Nat, bmpTry' = bmpTry \/ (t = Core /\ GivesUp(t)),
         bmpHalf' \in [Threads -> {"none", "sent", "failed"}],
         bmpHalf'[t] = "none", \A u \in Threads \ {t} : bmpHalf'[u] = bmpHalf[u],
         FallsBetween(t),
         conf' \in Config, dev' \in [conf : Config, calib : Readings], temp' \in Regs,
         regs' \in Regs, ucomp' \in Readings, pointer' \in Registers,
         MeasuresAreGenuine',
         t # Core => UNCHANGED <<conf, dev, regs>>,
         t = Core /\ ~GivesUp(t) =>
           \A k \in 1..12 : bmpTodo[Core] = ProbeLeft(k) /\ Probed(k)
                            /\ Head(bmpTodo[Core]) = Probe[13 - k] => Probed(k - 1)'
  PROVE  SensorSound'
<1>1. SensorTypeOK /\ Schedule /\ Addressed /\ ProbeHolds
  BY DEF SensorSound
<1>2. /\ bmpTodo' \in [Threads -> Seq(Accesses)]
      /\ bmpState' \in {"unloaded", "probing", "bound", "unbound", "removing"}
      /\ \A u \in Threads \ {t} : bmpTodo'[u] = bmpTodo[u]
      /\ Schedule'
  BY <1>1, ScheduleIsKept
<1>3. Addressed' /\ bmpMixed' \in [Threads -> BOOLEAN]
  BY <1>1, <1>2, AddressedIsKept
<1>4. SensorTypeOK'
  BY <1>2, <1>3 DEF SensorTypeOK
<1>5. ProbeHolds'
  <2>1. CASE t # Core
    <3>1. bmpState' = bmpState /\ bmpTodo'[Core] = bmpTodo[Core]
      BY <1>2, <2>1 DEF Goes, GivesUp, Threads
    <3> QED  BY <1>1, <2>1, <3>1, ReaderKeepsProbe
  <2>2. CASE t = Core /\ ~GivesUp(t)
    BY <1>1, <2>2, ProbeGoesOn
  <2>3. CASE t = Core /\ GivesUp(t)
    BY <2>3, LeavingKeepsProbe DEF GivesUp
  <2> QED  BY <2>1, <2>2, <2>3
<1> QED  BY <1>2, <1>3, <1>4, <1>5 DEF SensorSound

\* Where the probe is in an access that changes nothing it relies on.
LEMMA ProbedIsKeptOnTheWay ==
  ASSUME UNCHANGED <<conf, dev, regs>>, NEW k \in 1..12, Probed(k),
         Probe[13 - k] \in {"id", "ctrl", "press"}
  PROVE  Probed(k - 1)'
<1>1. k \in {12, 11, 8, 5, 4, 1, 7}
  BY ProbeAt
<1>2. k \in {12, 11, 8, 5, 1}
  <2>1. Probe[13 - 4] = "reset" /\ Probe[13 - 7] = "reset"
    <3>1. Probe[9] = "reset" /\ Probe[6] = "reset"  BY ProbeIs
    <3>2. 13 - 4 = 9 /\ 13 - 7 = 6  OBVIOUS
    <3> QED  BY <3>1, <3>2
  <2> QED  BY <1>1, <2>1
<1> QED  BY <1>2 DEF Probed, Asked

\* Asking for the chip id: the right one, or one try less.
LEMMA ReadIdStep ==
  ASSUME SensorSound, NEW t \in Threads, ReadId(t)
  PROVE  SensorSound'
<1>1. SensorTypeOK /\ Schedule /\ Addressed /\ ProbeHolds /\ MeasuresAreGenuine
  BY DEF SensorSound
<1>2. UNCHANGED <<conf, dev, temp, ucomp>> /\ \E s \in BOOLEAN : ReceiveData(t, "id", s)
  BY DEF ReadId
<1>3. PICK s \in BOOLEAN : ReceiveData(t, "id", s)
  BY <1>2
<1>4. /\ bmpTodo[t] # <<>> /\ Head(bmpTodo[t]) = "id"
      /\ bmpHalf' \in [Threads -> {"none", "sent", "failed"}]
      /\ bmpHalf'[t] = "none" /\ \A u \in Threads \ {t} : bmpHalf'[u] = bmpHalf[u]
      /\ pointer' \in Registers
      /\ FallsBetween(t) /\ regs' = regs
  BY <1>1, <1>3, Received DEF Reads
<1>5. t = Core /\ bmpTry > 0
  <2>1. Doing(t, {"id"})  BY <1>4 DEF Doing
  <2>2. t = Core  BY <1>1, <2>1, ReadersOnlyMeasure
  <2> QED  BY <1>1, <2>1, <2>2 DEF Schedule
<1>6. bmpTry \in Nat /\ MeasuresAreGenuine'
  BY <1>1, <1>2 DEF SensorTypeOK, MeasuresAreGenuine
<1>7. /\ conf' \in Config /\ dev' \in [conf : Config, calib : Readings] /\ temp' \in Regs
      /\ regs' \in Regs /\ ucomp' \in Readings
  BY <1>1, <1>2, <1>4 DEF SensorTypeOK
<1>8. ASSUME NEW k \in 1..12, Probed(k), Head(bmpTodo[Core]) = Probe[13 - k]
      PROVE  Probed(k - 1)'
  BY <1>2, <1>4, <1>5, <1>8, ProbedIsKeptOnTheWay
<1>9. CASE Goes(t) /\ bmpTry' = bmpTry
  BY <1>4, <1>5, <1>6, <1>7, <1>8, <1>9, AccessEnds
<1>10. CASE TriesAgain(t) /\ bmpTry = 1
  <2>1. bmpTry' \in Nat /\ GivesUp(t)  BY <1>10 DEF TriesAgain
  <2> QED  BY <1>4, <1>5, <1>6, <1>7, <2>1, AccessEnds
<1>11. CASE TriesAgain(t) /\ bmpTry # 1
  <2>1. bmpTry' \in Nat /\ bmpTry' > 0 /\ UNCHANGED <<bmpTodo, bmpState>>
    BY <1>5, <1>6, <1>11 DEF TriesAgain
  <2>2. Addressed' /\ bmpMixed' \in [Threads -> BOOLEAN]
    BY <1>1, <1>4, <2>1, AddressedIsKept
  <2>3. SensorTypeOK'
    BY <1>1, <1>4, <1>7, <2>1, <2>2 DEF SensorTypeOK
  <2>4. Schedule'
    BY <1>1, <2>1 DEF Schedule, Doing
  <2>5. ProbeHolds'
    BY <1>1, <1>2, <1>4, <2>1, ReaderKeepsProbe
  <2> QED  BY <1>6, <2>2, <2>3, <2>4, <2>5 DEF SensorSound
<1> QED  BY <1>9, <1>10, <1>11 DEF ReadId

\* The calibration is read from its own registers, or mixed; it clears the configuration.
LEMMA GetCalibParamStep ==
  ASSUME SensorSound, NEW t \in Threads, GetCalibParam(t)
  PROVE  SensorSound'
<1>1. SensorTypeOK /\ Schedule /\ Addressed /\ ProbeHolds /\ MeasuresAreGenuine
  BY DEF SensorSound
<1>2. /\ ReceiveData(t, "calib", TRUE) /\ Goes(t)
      /\ dev' = [conf |-> ResetConfig, calib |-> Taken(t)]
      /\ UNCHANGED <<bmpTry, conf, temp, ucomp>>
  BY DEF GetCalibParam
<1>3. /\ bmpTodo[t] # <<>> /\ Head(bmpTodo[t]) = "calib"
      /\ bmpHalf' \in [Threads -> {"none", "sent", "failed"}]
      /\ bmpHalf'[t] = "none" /\ \A u \in Threads \ {t} : bmpHalf'[u] = bmpHalf[u]
      /\ pointer' \in Registers
      /\ FallsBetween(t) /\ regs' = regs
  BY <1>1, <1>2, Received DEF Reads
<1>4. t = Core
  <2>1. Doing(t, {"calib"})  BY <1>3 DEF Doing
  <2> QED  BY <1>1, <2>1, ReadersOnlyMeasure
<1>5. Taken(t) \in Readings /\ (bmpMixed[t] \/ pointer = "calib")
  BY <1>1, <1>2, ReceivedIsGenuine DEF Address
<1>6. dev' \in [conf : Config, calib : Readings]
  BY <1>2, <1>5 DEF ResetConfig, Config
<1>7. MeasuresAreGenuine'
  BY <1>1, <1>2, <1>5 DEF MeasuresAreGenuine, Taken
<1>8. conf' \in Config /\ temp' \in Regs /\ regs' \in Regs /\ ucomp' \in Readings /\ bmpTry' \in Nat
  BY <1>1, <1>2, <1>3 DEF SensorTypeOK
<1>9. ASSUME NEW k \in 1..12, Probed(k), Head(bmpTodo[Core]) = Probe[13 - k]
      PROVE  Probed(k - 1)'
  <2>1. k = 10  BY <1>3, <1>4, <1>9, ProbeAt
  <2> QED  BY <2>1 DEF Probed
<1> QED  BY <1>2, <1>3, <1>4, <1>6, <1>7, <1>8, <1>9, AccessEnds

\* Whatever is received as the configuration, conf is what the probe asks for.
LEMMA GetConfigStep ==
  ASSUME SensorSound, NEW t \in Threads, GetConfig(t)
  PROVE  SensorSound'
<1>1. SensorTypeOK /\ Schedule /\ Addressed /\ ProbeHolds /\ MeasuresAreGenuine
  BY DEF SensorSound
<1>2. ReceiveData(t, "config", TRUE) /\ Goes(t) /\ UNCHANGED <<bmpTry, temp, ucomp>>
  BY DEF GetConfig
<1>3. /\ bmpTodo[t] # <<>> /\ Head(bmpTodo[t]) = "config"
      /\ bmpHalf' \in [Threads -> {"none", "sent", "failed"}]
      /\ bmpHalf'[t] = "none" /\ \A u \in Threads \ {t} : bmpHalf'[u] = bmpHalf[u]
      /\ pointer' \in Registers
      /\ FallsBetween(t) /\ regs' = regs
  BY <1>1, <1>2, Received DEF Reads
<1>4. t = Core
  <2>1. Doing(t, {"config"})  BY <1>3 DEF Doing
  <2> QED  BY <1>1, <2>1, ReadersOnlyMeasure
<1>5. PICK read \in ReadAt : conf' = Asked(read.config) /\ dev' = [dev EXCEPT !.conf = read.config]
  BY DEF GetConfig
<1>6. read.config \in Config
  <2>1. read \in Regs  BY <1>1, SensorAssumption DEF ReadAt, SensorTypeOK, Regs
  <2> QED  BY <2>1 DEF Regs
<1>7. conf' \in Config /\ conf' = Asked(conf')
  BY <1>5, <1>6 DEF Asked, Config
<1>8. dev' \in [conf : Config, calib : Readings] /\ dev'.calib = dev.calib
  BY <1>1, <1>5, <1>6 DEF SensorTypeOK
<1>9. MeasuresAreGenuine'
  BY <1>1, <1>2, <1>8 DEF MeasuresAreGenuine
<1>10. temp' \in Regs /\ regs' \in Regs /\ ucomp' \in Readings /\ bmpTry' \in Nat
  BY <1>1, <1>2, <1>3 DEF SensorTypeOK
<1>11. ASSUME NEW k \in 1..12, Probed(k), Head(bmpTodo[Core]) = Probe[13 - k]
       PROVE  Probed(k - 1)'
  <2>1. k = 9  BY <1>3, <1>4, <1>11, ProbeAt
  <2> QED  BY <1>7, <2>1 DEF Probed, Asked
<1> QED  BY <1>2, <1>3, <1>4, <1>7, <1>8, <1>9, <1>10, <1>11, AccessEnds

\* conf_sensor reads the two registers it is going to write.
LEMMA ReadCtrlStep ==
  ASSUME SensorSound, NEW t \in Threads, ReadCtrl(t)
  PROVE  SensorSound'
<1>1. SensorTypeOK /\ Schedule /\ Addressed /\ ProbeHolds /\ MeasuresAreGenuine
  BY DEF SensorSound
<1>2. /\ ReceiveData(t, "ctrl", TRUE) /\ Goes(t) /\ temp' \in ReadAt
      /\ UNCHANGED <<bmpTry, conf, dev, ucomp>>
  BY DEF ReadCtrl
<1>3. /\ bmpTodo[t] # <<>> /\ Head(bmpTodo[t]) = "ctrl"
      /\ bmpHalf' \in [Threads -> {"none", "sent", "failed"}]
      /\ bmpHalf'[t] = "none" /\ \A u \in Threads \ {t} : bmpHalf'[u] = bmpHalf[u]
      /\ pointer' \in Registers
      /\ FallsBetween(t) /\ regs' = regs
  BY <1>1, <1>2, Received DEF Reads
<1>4. temp' \in Regs
  BY <1>1, <1>2, SensorAssumption DEF ReadAt, SensorTypeOK, Regs
<1>5. MeasuresAreGenuine'
  BY <1>1, <1>2 DEF MeasuresAreGenuine
<1>6. /\ conf' \in Config /\ dev' \in [conf : Config, calib : Readings]
      /\ regs' \in Regs /\ ucomp' \in Readings /\ bmpTry' \in Nat
  BY <1>1, <1>2, <1>3 DEF SensorTypeOK
<1>7. ASSUME NEW k \in 1..12, Probed(k), t = Core, Head(bmpTodo[Core]) = Probe[13 - k]
      PROVE  Probed(k - 1)'
  BY <1>2, <1>3, <1>7, ProbedIsKeptOnTheWay
<1> QED  BY <1>2, <1>3, <1>4, <1>5, <1>6, <1>7, AccessEnds

\* A measure is taken from its own registers, or mixed.
LEMMA GetUncompDataStep ==
  ASSUME SensorSound, NEW t \in Threads, GetUncompData(t)
  PROVE  SensorSound'
<1>1. SensorTypeOK /\ Schedule /\ Addressed /\ ProbeHolds /\ MeasuresAreGenuine
  BY DEF SensorSound
<1>2. /\ ReceiveData(t, "press", TRUE) /\ (Goes(t) \/ GivesUp(t)) /\ ucomp' = Taken(t)
      /\ UNCHANGED <<bmpTry, conf, dev, temp>>
  BY DEF GetUncompData
<1>3. /\ bmpTodo[t] # <<>> /\ Head(bmpTodo[t]) = "press"
      /\ bmpHalf' \in [Threads -> {"none", "sent", "failed"}]
      /\ bmpHalf'[t] = "none" /\ \A u \in Threads \ {t} : bmpHalf'[u] = bmpHalf[u]
      /\ pointer' \in Registers
      /\ FallsBetween(t) /\ regs' = regs
  BY <1>1, <1>2, Received DEF Reads
<1>4. Taken(t) \in Readings /\ (bmpMixed[t] \/ pointer = "press")
  BY <1>1, <1>2, ReceivedIsGenuine DEF Address
<1>5. MeasuresAreGenuine'
  BY <1>1, <1>2, <1>4 DEF MeasuresAreGenuine, Taken
<1>6. /\ conf' \in Config /\ dev' \in [conf : Config, calib : Readings] /\ temp' \in Regs
      /\ regs' \in Regs /\ ucomp' \in Readings /\ bmpTry' \in Nat
  BY <1>1, <1>2, <1>3, <1>4 DEF SensorTypeOK
<1>7. ASSUME NEW k \in 1..12, Probed(k), t = Core, Head(bmpTodo[Core]) = Probe[13 - k]
      PROVE  Probed(k - 1)'
  BY <1>2, <1>3, <1>7, ProbedIsKeptOnTheWay
<1> QED  BY <1>2, <1>3, <1>5, <1>6, <1>7, AccessEnds

\* A failed read, of the probe, the remove function or a reader.
LEMMA ReadFailsStep ==
  ASSUME SensorSound, NEW t \in Threads, ReadFails(t)
  PROVE  SensorSound'
<1>1. SensorTypeOK /\ Schedule /\ Addressed /\ ProbeHolds /\ MeasuresAreGenuine
  BY DEF SensorSound
<1>2. PICK access \in Reads : ReceiveData(t, access, FALSE)
  BY DEF ReadFails
<1>3. GivesUp(t) /\ UNCHANGED <<bmpTry, conf, dev, temp, ucomp>>
  BY DEF ReadFails
<1>4. /\ bmpTodo[t] # <<>>
      /\ bmpHalf' \in [Threads -> {"none", "sent", "failed"}]
      /\ bmpHalf'[t] = "none" /\ \A u \in Threads \ {t} : bmpHalf'[u] = bmpHalf[u]
      /\ pointer' \in Registers
      /\ FallsBetween(t) /\ regs' = regs
  BY <1>1, <1>2, Received
<1>5. MeasuresAreGenuine'
  BY <1>1, <1>3 DEF MeasuresAreGenuine
<1>6. /\ conf' \in Config /\ dev' \in [conf : Config, calib : Readings] /\ temp' \in Regs
      /\ regs' \in Regs /\ ucomp' \in Readings /\ bmpTry' \in Nat
  BY <1>1, <1>3, <1>4 DEF SensorTypeOK
<1> QED  BY <1>3, <1>4, <1>5, <1>6, AccessEnds

\* What a write leaves.
LEMMA Sent ==
  ASSUME SensorSound, NEW t \in Threads, NEW succeeds \in BOOLEAN, SetRegs(t, succeeds)
  PROVE  /\ t = Core /\ bmpTodo[t] # <<>> /\ Head(bmpTodo[t]) \in Writes
         /\ bmpHalf' \in [Threads -> {"none", "sent", "failed"}]
         /\ bmpHalf'[t] = "none" /\ \A u \in Threads \ {t} : bmpHalf'[u] = bmpHalf[u]
         /\ FallsBetween(t)
         /\ pointer' \in Registers /\ regs' \in Regs
         /\ UNCHANGED <<bmpTry, conf, temp, ucomp>>
<1>1. SensorTypeOK /\ Schedule /\ Addressed
  BY DEF SensorSound
<1>2. Doing(t, Writes) /\ FallsBetween(t) /\ UNCHANGED <<bmpHalf, bmpTry, conf, temp, ucomp>>
  BY DEF SetRegs
<1>3. bmpTodo[t] # <<>> /\ Head(bmpTodo[t]) \in Writes
  BY <1>2 DEF Doing
<1>4. t = Core
  BY <1>1, <1>2, ReadersOnlyMeasure DEF Writes
<1>5. bmpHalf[t] = "none"
  BY <1>1, <1>3 DEF Addressed, Doing, Reads, Writes
<1>6. bmpHalf' \in [Threads -> {"none", "sent", "failed"}] /\ pointer \in Registers /\ regs \in Regs
  BY <1>1, <1>2 DEF SensorTypeOK
<1> DEFINE effects == Effects(Head(bmpTodo[t]))
<1>7. (\A k \in DOMAIN effects : effects[k] \in Regs) /\ effects[Len(effects)] \in Regs
  BY <1>1, <1>3, EffectsAre
<1>8. IF succeeds
      THEN regs' = effects[Len(effects)] /\ pointer' = "past"
      ELSE \/ UNCHANGED <<regs, pointer>>
           \/ regs' \in {effects[k] : k \in DOMAIN effects} \cup {regs} /\ pointer' = "past"
  BY DEF SetRegs
<1> HIDE DEF effects
<1>9. pointer' \in Registers /\ regs' \in Regs
  BY <1>6, <1>7, <1>8 DEF Registers
<1> QED  BY <1>2, <1>3, <1>4, <1>5, <1>6, <1>9

\* A completed write: of conf (the device's configuration follows), of the device's
\* configuration (the registers follow), of the mode, or of the reset register.
LEMMA WriteStep ==
  ASSUME SensorSound, NEW t \in Threads, Write(t)
  PROVE  SensorSound'
<1>1. SensorTypeOK /\ MeasuresAreGenuine /\ SetRegs(t, TRUE) /\ Goes(t)
  BY DEF SensorSound, Write
<1>2. /\ t = Core /\ bmpTodo[t] # <<>> /\ Head(bmpTodo[t]) \in Writes
      /\ bmpHalf' \in [Threads -> {"none", "sent", "failed"}]
      /\ bmpHalf'[t] = "none" /\ \A u \in Threads \ {t} : bmpHalf'[u] = bmpHalf[u]
      /\ FallsBetween(t)
      /\ pointer' \in Registers /\ regs' \in Regs
      /\ UNCHANGED <<bmpTry, conf, temp, ucomp>>
  BY <1>1, Sent
<1> DEFINE access == Head(bmpTodo[t])
<1>3. dev' = IF access = "conf" THEN [dev EXCEPT !.conf = conf] ELSE dev
  BY <1>2 DEF Write, Doing
<1>4. regs' = Effects(access)[Len(Effects(access))]
  BY <1>1 DEF SetRegs
<1>5. /\ conf' \in Config /\ dev' \in [conf : Config, calib : Readings] /\ dev'.calib = dev.calib
      /\ temp' \in Regs /\ ucomp' \in Readings /\ bmpTry' \in Nat
  BY <1>1, <1>2, <1>3 DEF SensorTypeOK
<1>6. MeasuresAreGenuine'
  BY <1>1, <1>2, <1>5 DEF MeasuresAreGenuine
<1>7. ASSUME NEW k \in 1..12, Probed(k), access = Probe[13 - k]
      PROVE  Probed(k - 1)'
  <2>1. CASE access = "conf"
    <3>1. k = 6  BY <1>7, <2>1, ProbeAt
    <3>2. dev'.conf = conf /\ conf' = conf /\ conf = Asked(conf)
      BY <1>1, <1>2, <1>3, <1>7, <2>1, <3>1 DEF Probed, SensorTypeOK
    <3> QED  BY <3>1, <3>2 DEF Probed, Asked
  <2>2. CASE access = "dev.conf"
    <3>1. k = 3 /\ dev' = dev  BY <1>3, <1>7, <2>2, ProbeAt
    <3>2. regs'.config = dev.conf  BY <1>1, <1>2, <1>4, <2>2, EffectsAre
    <3> QED  BY <1>2, <1>7, <3>1, <3>2 DEF Probed, Asked
  <2>3. CASE access = "mode"
    <3>1. k = 2 /\ dev' = dev  BY <1>3, <1>7, <2>3, ProbeAt
    <3>2. regs.config = dev.conf  BY <1>7, <3>1 DEF Probed
    <3>3. regs'.config = dev.conf /\ regs'.mode = "normal"
      BY <1>1, <1>2, <1>4, <2>3, <3>2, EffectsAre
    <3> QED  BY <1>2, <1>7, <3>1, <3>3 DEF Probed, Asked
  <2>4. CASE access = "reset"
    <3>1. k \in {11, 8, 7, 5, 4} /\ dev' = dev  BY <1>3, <1>7, <2>4, ProbeAt
    <3> QED  BY <1>2, <1>7, <3>1 DEF Probed, Asked
  <2> QED  BY <1>2, <2>1, <2>2, <2>3, <2>4 DEF Writes
<1> QED  BY <1>1, <1>2, <1>5, <1>6, <1>7, AccessEnds

\* A failed write, whatever of it has reached the sensor.
LEMMA WriteFailsStep ==
  ASSUME SensorSound, NEW t \in Threads, WriteFails(t)
  PROVE  SensorSound'
<1>1. SensorTypeOK /\ MeasuresAreGenuine /\ SetRegs(t, FALSE) /\ GivesUp(t) /\ UNCHANGED dev
  BY DEF SensorSound, WriteFails
<1>2. /\ t = Core /\ bmpTodo[t] # <<>>
      /\ bmpHalf' \in [Threads -> {"none", "sent", "failed"}]
      /\ bmpHalf'[t] = "none" /\ \A u \in Threads \ {t} : bmpHalf'[u] = bmpHalf[u]
      /\ FallsBetween(t)
      /\ pointer' \in Registers /\ regs' \in Regs
      /\ UNCHANGED <<bmpTry, conf, temp, ucomp>>
  BY <1>1, Sent
<1>3. /\ conf' \in Config /\ dev' \in [conf : Config, calib : Readings]
      /\ temp' \in Regs /\ ucomp' \in Readings /\ bmpTry' \in Nat
  BY <1>1, <1>2 DEF SensorTypeOK
<1>4. MeasuresAreGenuine'
  BY <1>1, <1>2 DEF MeasuresAreGenuine
<1> QED  BY <1>1, <1>2, <1>3, <1>4, AccessEnds

\* The first transfer of a read, sent or failed.
LEMMA SendAddressStep ==
  ASSUME SensorSound, NEW t \in Threads, SendAddress(t)
  PROVE  SensorSound'
<1>1. SensorTypeOK /\ Schedule /\ Addressed /\ ProbeHolds /\ MeasuresAreGenuine
  BY DEF SensorSound
<1>2. /\ Doing(t, Reads) /\ bmpHalf[t] = "none" /\ FallsBetween(t)
      /\ UNCHANGED <<bmpState, bmpTodo, bmpTry, conf, dev, temp, ucomp, regs>>
  BY DEF SendAddress
<1>3. PICK sent \in BOOLEAN :
        /\ bmpHalf' = [bmpHalf EXCEPT ![t] = IF sent THEN "sent" ELSE "failed"]
        /\ pointer' \in {Address(Head(bmpTodo[t]))} \cup (IF sent THEN {} ELSE {pointer})
  BY DEF SendAddress
<1>4. bmpMixed' = [u \in Threads |-> u # t /\ (bmpMixed[u] \/ bmpHalf[u] # "none")]
  BY <1>2 DEF FallsBetween
<1>5. SensorTypeOK'
  <2>1. bmpHalf' \in [Threads -> {"none", "sent", "failed"}]
    BY <1>1, <1>3 DEF SensorTypeOK
  <2>2. bmpMixed' \in [Threads -> BOOLEAN]
    BY <1>4
  <2>3. Address(Head(bmpTodo[t])) \in Registers
    BY <1>2 DEF Doing, Reads, Address, Registers
  <2>4. pointer' \in Registers
    BY <1>1, <1>3, <2>3 DEF SensorTypeOK
  <2> QED  BY <1>1, <1>2, <2>1, <2>2, <2>4 DEF SensorTypeOK
<1>6. Schedule'
  BY <1>1, <1>2 DEF Schedule, Doing
<1>7. Addressed'
  <2> SUFFICES ASSUME NEW u \in Threads
               PROVE  /\ bmpHalf'[u] # "none" => Doing(u, Reads)'
                      /\ bmpHalf'[u] = "sent" /\ ~bmpMixed'[u] =>
                           pointer' = Address(Head(bmpTodo'[u]))
    BY DEF Addressed
  <2>1. CASE u = t
    <3>1. bmpHalf'[u] = "sent" => sent
      BY <1>1, <1>3, <2>1 DEF SensorTypeOK
    <3> QED  BY <1>2, <1>3, <2>1, <3>1 DEF Doing
  <2>2. CASE u # t
    <3>1. bmpHalf'[u] = bmpHalf[u]
      BY <1>1, <1>3, <2>2 DEF SensorTypeOK
    <3>2. bmpHalf'[u] # "none" => bmpMixed'[u]
      BY <1>4, <2>2, <3>1
    <3> QED  BY <1>1, <1>2, <3>1, <3>2 DEF Addressed, Doing
  <2> QED  BY <2>1, <2>2
<1>8. MeasuresAreGenuine'
  BY <1>1, <1>2 DEF MeasuresAreGenuine
<1>9. ProbeHolds'
  BY <1>1, <1>2, ReaderKeepsProbe
<1> QED  BY <1>5, <1>6, <1>7, <1>8, <1>9 DEF SensorSound

\* insmod: the probe is at its first access.
LEMMA LoadSensorStep ==
  ASSUME SensorSound, LoadSensor
  PROVE  SensorSound'
<1>1. SensorTypeOK /\ Schedule /\ Addressed /\ ProbeHolds /\ MeasuresAreGenuine
  BY DEF SensorSound
<1>2. /\ bmpState = "unloaded" /\ bmpState' = "probing"
      /\ bmpTodo' = [bmpTodo EXCEPT ![Core] = Probe]
      /\ bmpTry' = Tries
      /\ conf' = ResetConfig /\ dev' = [conf |-> ResetConfig, calib |-> NotRead]
      /\ temp' = ResetRegs /\ ucomp' = NotRead
      /\ UNCHANGED <<bmpHalf, bmpMixed, pointer, regs>>
  BY DEF LoadSensor
<1>3. Core \in Threads /\ bmpTodo \in [Threads -> Seq(Accesses)]
  BY <1>1 DEF Threads, SensorTypeOK
<1>4. bmpTodo' \in [Threads -> Seq(Accesses)] /\ bmpTodo'[Core] = Probe
  BY <1>2, <1>3, ProbeIs
<1>5. \A u \in Threads \ {Core} : bmpTodo'[u] = bmpTodo[u]
  BY <1>2, <1>3
<1>6. ProbeLeft(12) = Probe /\ 12 \in 1..12
  BY ProbeSteps
<1>7. SensorTypeOK'
  <2>1. /\ conf' \in Config /\ dev' \in [conf : Config, calib : Readings]
        /\ temp' \in Regs /\ ucomp' \in Readings
    BY <1>2 DEF ResetConfig, ResetRegs, Config, Regs, Modes, Readings, NotRead
  <2>2. bmpTry' \in Nat /\ bmpState' = "probing"  BY <1>2, SensorAssumption
  <2> QED  BY <1>1, <1>2, <1>4, <2>1, <2>2 DEF SensorTypeOK
<1>8. Schedule'
  <2>1. \A r \in Readers : bmpTodo'[r] \in {<<>>, <<"press">>}
    BY <1>1, <1>5, SensorAssumption DEF Schedule, Threads
  <2>2. bmpTry' > 0  BY <1>2, SensorAssumption
  <2> QED  BY <1>2, <1>4, <1>6, <2>1, <2>2 DEF Schedule
<1>9. Addressed'
  <2>1. bmpHalf[Core] = "none"
    BY <1>1, <1>2, <1>3 DEF Addressed, Schedule, Doing
  <2> QED  BY <1>1, <1>2, <1>3, <1>5, <2>1 DEF Addressed, Doing
<1>10. MeasuresAreGenuine'
  BY <1>2 DEF MeasuresAreGenuine, NotRead
<1>11. ProbeHolds'
  <2>1. \A k \in 1..12 : bmpTodo'[Core] = ProbeLeft(k) => k = 12
    BY <1>4, <1>6, OnePlace
  <2> QED  BY <1>2, <2>1 DEF ProbeHolds, Probed, ProbeLeft
<1> QED  BY <1>7, <1>8, <1>9, <1>10, <1>11 DEF SensorSound

\* rmmod: the remove function, if a sensor is bound.
LEMMA UnloadSensorStep ==
  ASSUME SensorSound, UnloadSensor
  PROVE  SensorSound'
<1>1. SensorTypeOK /\ Schedule /\ Addressed /\ ProbeHolds /\ MeasuresAreGenuine
  BY DEF SensorSound
<1>2. /\ bmpState \in {"bound", "unbound"}
      /\ UNCHANGED <<bmpHalf, bmpMixed, bmpTry, conf, dev, temp, ucomp, pointer, regs>>
      /\ \/ bmpState' = "removing" /\ bmpTodo' = [bmpTodo EXCEPT ![Core] = Remove]
         \/ bmpState' = "unloaded" /\ UNCHANGED bmpTodo
  BY DEF UnloadSensor
<1>3. Core \in Threads /\ bmpTodo \in [Threads -> Seq(Accesses)] /\ bmpTodo[Core] = <<>>
  BY <1>1, <1>2 DEF Threads, SensorTypeOK, Schedule
<1>4. bmpTodo' \in [Threads -> Seq(Accesses)]
  BY <1>2, <1>3, RemoveIs
<1>5. \A u \in Threads \ {Core} : bmpTodo'[u] = bmpTodo[u]
  BY <1>2, <1>3
<1>6. SensorTypeOK'
  BY <1>1, <1>2, <1>4 DEF SensorTypeOK
<1>7. Schedule'
  <2>1. \A r \in Readers : bmpTodo'[r] \in {<<>>, <<"press">>}
    BY <1>1, <1>5, SensorAssumption DEF Schedule, Threads
  <2>2. RemoveLeft(3) = Remove /\ 3 \in 1..3 /\ Remove # <<>> /\ Head(Remove) # "id"
    BY RemoveSteps, RemoveIs
  <2>3. bmpState' = "removing" => bmpTodo'[Core] = Remove
    BY <1>2, <1>3
  <2>4. bmpState' # "removing" => bmpTodo'[Core] = <<>>
    BY <1>2, <1>3
  <2> QED  BY <1>2, <2>1, <2>2, <2>3, <2>4 DEF Schedule, Doing
<1>8. Addressed'
  <2>1. bmpHalf[Core] = "none"
    BY <1>1, <1>3 DEF Addressed, Doing
  <2> QED  BY <1>1, <1>2, <1>3, <1>5, <2>1 DEF Addressed, Doing
<1>9. MeasuresAreGenuine'
  BY <1>1, <1>2 DEF MeasuresAreGenuine
<1>10. ProbeHolds'
  BY <1>2, LeavingKeepsProbe
<1> QED  BY <1>6, <1>7, <1>8, <1>9, <1>10 DEF SensorSound

\* etx_read.
LEMMA ReadSensorStep ==
  ASSUME SensorSound, NEW r \in Readers, ReadSensor(r)
  PROVE  SensorSound'
<1>1. SensorTypeOK /\ Schedule /\ Addressed /\ ProbeHolds /\ MeasuresAreGenuine
  BY DEF SensorSound
<1>2. /\ bmpTodo[r] = <<>> /\ bmpTodo' = [bmpTodo EXCEPT ![r] = <<"press">>]
      /\ UNCHANGED <<bmpState, bmpHalf, bmpMixed, bmpTry, conf, dev, temp, ucomp, pointer, regs>>
  BY DEF ReadSensor
<1>3. r \in Threads /\ r # Core /\ bmpTodo \in [Threads -> Seq(Accesses)]
  BY <1>1, SensorAssumption DEF Threads, SensorTypeOK
<1>4. <<"press">> \in Seq(Accesses)
  BY DEF Accesses, Reads
<1>5. bmpTodo' \in [Threads -> Seq(Accesses)] /\ bmpTodo'[r] = <<"press">>
  BY <1>2, <1>3, <1>4
<1>6. \A u \in Threads \ {r} : bmpTodo'[u] = bmpTodo[u]
  BY <1>2, <1>3
<1>7. bmpTodo'[Core] = bmpTodo[Core]
  BY <1>3, <1>6 DEF Threads
<1>8. SensorTypeOK'
  BY <1>1, <1>2, <1>5 DEF SensorTypeOK
<1>9. Schedule'
  <2>1. \A q \in Readers : bmpTodo'[q] \in {<<>>, <<"press">>}
    BY <1>1, <1>5, <1>6 DEF Schedule, Threads
  <2> QED  BY <1>1, <1>2, <1>7, <2>1 DEF Schedule, Doing
<1>10. Addressed'
  <2>1. bmpHalf[r] = "none"
    BY <1>1, <1>2, <1>3 DEF Addressed, Doing
  <2> QED  BY <1>1, <1>2, <1>3, <1>6, <2>1 DEF Addressed, Doing
<1>11. MeasuresAreGenuine'
  BY <1>1, <1>2 DEF MeasuresAreGenuine
<1>12. ProbeHolds'
  BY <1>1, <1>2, <1>7, ReaderKeepsProbe
<1> QED  BY <1>8, <1>9, <1>10, <1>11, <1>12 DEF SensorSound

\* A step of something else.
LEMMA SensorStutters ==
  ASSUME SensorSound, UNCHANGED sensorVars
  PROVE  SensorSound'
<1>1. UNCHANGED <<bmpState, bmpTodo, bmpHalf, bmpMixed, bmpTry, conf, dev, temp, ucomp, pointer,
                  regs>>
  BY DEF sensorVars
<1>2. SensorTypeOK'  BY <1>1 DEF SensorSound, SensorTypeOK
<1>3. Schedule'  BY <1>1 DEF SensorSound, Schedule, Doing
<1>4. Addressed'  BY <1>1 DEF SensorSound, Addressed, Doing
<1>5. MeasuresAreGenuine'  BY <1>1 DEF SensorSound, MeasuresAreGenuine
<1>6. ProbeHolds'  BY <1>1, ReaderKeepsProbe DEF SensorSound
<1> QED  BY <1>2, <1>3, <1>4, <1>5, <1>6 DEF SensorSound

\* The first load finds the sensor as it is after power-up.
LEMMA SensorStarts == SensorInit => SensorSound
<1> SUFFICES ASSUME SensorInit PROVE SensorSound  OBVIOUS
<1>1. SensorTypeOK
  BY DEF SensorInit, SensorTypeOK, ResetConfig, ResetRegs, NotRead, Config, Regs, Modes, Readings,
         Registers
<1>2. Schedule
  BY DEF SensorInit, Schedule, Threads, Doing
<1>3. Addressed /\ MeasuresAreGenuine /\ ProbeHolds
  BY DEF SensorInit, Addressed, MeasuresAreGenuine, ProbeHolds, NotRead
<1> QED  BY <1>1, <1>2, <1>3 DEF SensorSound

\* The strengthened invariant, for any readers and any number of tries: type
\* correctness, the probe's place, the begun reads, and what the probe has reached.
THEOREM SensorIsSound == SensorSpec => []SensorSound
<1>1. ASSUME SensorSound, [SensorNext]_sensorVars PROVE SensorSound'
  <2>1. CASE LoadSensor  BY <1>1, <2>1, LoadSensorStep
  <2>2. CASE UnloadSensor  BY <1>1, <2>2, UnloadSensorStep
  <2>3. ASSUME NEW r \in Readers, ReadSensor(r) PROVE SensorSound'
    BY <1>1, <2>3, ReadSensorStep
  <2>4. ASSUME NEW t \in Threads, Access(t) PROVE SensorSound'
    <3>1. CASE SendAddress(t)  BY <1>1, <3>1, SendAddressStep
    <3>2. CASE ReadId(t)  BY <1>1, <3>2, ReadIdStep
    <3>3. CASE GetCalibParam(t)  BY <1>1, <3>3, GetCalibParamStep
    <3>4. CASE GetConfig(t)  BY <1>1, <3>4, GetConfigStep
    <3>5. CASE ReadCtrl(t)  BY <1>1, <3>5, ReadCtrlStep
    <3>6. CASE GetUncompData(t)  BY <1>1, <3>6, GetUncompDataStep
    <3>7. CASE ReadFails(t)  BY <1>1, <3>7, ReadFailsStep
    <3>8. CASE Write(t)  BY <1>1, <3>8, WriteStep
    <3>9. CASE WriteFails(t)  BY <1>1, <3>9, WriteFailsStep
    <3> QED  BY <2>4, <3>1, <3>2, <3>3, <3>4, <3>5, <3>6, <3>7, <3>8, <3>9 DEF Access
  <2>5. CASE UNCHANGED sensorVars  BY <1>1, <2>5, SensorStutters
  <2> QED  BY <1>1, <2>1, <2>2, <2>3, <2>4, <2>5 DEF SensorNext
<1> QED  BY <1>1, SensorStarts, PTL DEF SensorSpec

\* However transfers fail and threads interleave, a measure or a calibration of
\* bmp280_get_regs that was not mixed comes from the registers that were asked for.
THEOREM GenuineMeasures == SensorSpec => []MeasuresAreGenuine
<1>1. SensorSound => MeasuresAreGenuine  BY DEF SensorSound
<1> QED  BY <1>1, SensorIsSound, PTL

\* Once bmp280_init, the configuration and the mode write have all succeeded the
\* sensor measures as asked, whatever its registers held before and whoever reads.
THEOREM ProbeConfigures == SensorSpec => []ProbedSensorMeasures
<1>1. SensorSound => ProbedSensorMeasures
  <2> SUFFICES ASSUME SensorSound, bmpState = "bound"
               PROVE  /\ regs.mode = "normal" /\ regs.config = Asked(regs.config)
                      /\ dev.conf = regs.config
    BY DEF ProbedSensorMeasures
  <2>1. Probed(0)  BY DEF SensorSound, ProbeHolds
  <2> QED  BY <2>1 DEF Probed
<1> QED  BY <1>1, SensorIsSound, PTL

-----------------------------------------------------------------------------
(* The bus *)

\* The operations on the pins, and the messages of a transfer.
Operations == [pin : {"SDA", "SCL"}, level : {"low", "high", "in"}]
Message    == [addr : 0..127, buf : Seq(0..255)]

\* What is left of a byte with its acknowledgement, of the begin of a transfer and
\* of its end, with k operations to go.
Frame(byte)        == Bits(byte) \o ReadNackAck
FrameLeft(byte, k) == SubSeq(Frame(byte), 28 - k, 27)
Begin              == <<SCL("high"), SDA("high")>> \o Sart
BeginLeft(k)       == SubSeq(Begin, 7 - k, 6)
StopLeft(k)        == SubSeq(Stop, 5 - k, 4)

\* The bit of the byte in its clock c, 0 to 7.
Bit(byte, c) == (byte \div 2 ^ (7 - c)) % 2

\* Type correctness.
BusTypeOK ==
  /\ pc \in {"idle", "message", "ack", "deinit"}
  /\ gpio \in Seq(Operations)
  /\ msgs = <<>> \/ msgs \in Transfers
  /\ i \in 1..3 /\ num \in Nat /\ ret \in Nat
  /\ nack \in BOOLEAN
  /\ scl \in {0, 1} /\ sda \in {0, 1} /\ out \in {"low", "high", "in"}
  /\ pulls \in BOOLEAN /\ state \in {"idle", "addr", "data", "deaf"}
  /\ n \in Nat /\ shift \in Nat /\ received \in Seq(Nat)
  /\ xfers \in Nat

\* The counters are within the argument.
Counters ==
  /\ pc # "idle" => msgs \in Transfers
  /\ pc \in {"message", "ack"} => ret = i - 1
  /\ pc = "message" => i <= Len(msgs) + 1 /\ num = 0
  /\ pc = "ack" => i <= Len(msgs) /\ num <= Len(msgs[i].buf)

\* The byte on the wire: the address, or the last one begun of the message.
Sending == IF num = 0 THEN 2 * msgs[i].addr ELSE msgs[i].buf[num]

\* The clocks a byte has had, with k of its operations to go.
Clocks(k) == IF k > 2 THEN (28 - k) \div 3 ELSE 9
ClockIsHigh(k) == (k > 3 /\ (k % 3) = 1) \/ k \in {1, 2}
Listens == state \in {"addr", "data"}

\* No transfer is going on.
AtIdle == state = "idle" /\ ~pulls /\ sda = 1 /\ n = 0 /\ out # "low"

\* At the begin with k operations to go, in a byte, and at the end.
AtBegin(k) ==
  /\ ~pulls /\ n = 0
  /\ k >= 2 => state = "idle" /\ sda = 1 /\ out # "low"
  /\ k \in 1..5 => scl = 1
  /\ k \in {0, 1} => Listens
  /\ k = 0 => scl = 0

AtFrame(k) ==
  /\ scl = IF ClockIsHigh(k) THEN 1 ELSE 0
  /\ k > 3 /\ (k % 3) # 0 => out = Level1(Bit(Sending, (27 - k) \div 3))
  /\ pulls => k \in {1, 2, 3} /\ Listens
  /\ k = 1 => nack = ~pulls
  /\ Listens => IF k = 0 THEN n = 0 ELSE n = Clocks(k) \/ (k = 1 /\ n = 0)
  /\ k = 0 /\ ~nack => Listens

AtStop(k) ==
  /\ ~pulls
  /\ k \in {2, 3} => sda = 0 /\ out = "low"
  /\ k = 2 => scl = 1
  /\ k < 2 => AtIdle

\* Where etx_i2c_xfer is, what it has still to do to the pins, and what that makes
\* of the wires and of the slave.
Wires ==
  /\ pc = "idle" => gpio = <<>> /\ AtIdle
  /\ pc = "message" => Len(gpio) <= 6 /\ gpio = BeginLeft(Len(gpio)) /\ AtBegin(Len(gpio))
  /\ pc = "ack" => Len(gpio) <= 27 /\ gpio = FrameLeft(Sending, Len(gpio)) /\ AtFrame(Len(gpio))
  /\ pc = "deinit" => Len(gpio) <= 4 /\ gpio = StopLeft(Len(gpio)) /\ AtStop(Len(gpio))

\* The bytes of the payload that were put on the wire, the one on it included.
Behind ==
  CASE i = 1 -> num
    [] i = 2 -> Len(msgs[1].buf) + (IF pc = "ack" THEN 1 + num ELSE 0)
    [] i = 3 -> Len(Payload(msgs))

\* The slave has taken the first m of them and nothing else.
Holds(m) ==
  /\ m <= Len(Payload(msgs)) /\ Len(received) = m
  /\ \A j \in 1..m : received[j] = Payload(msgs)[j]

Before == IF Behind = 0 THEN 0 ELSE Behind - 1

\* It takes the next byte for data, or for an address behind a byte that ends in 1.
Expects(m, odd) == state = "data" \/ (state = "addr" /\ m > 0 /\ odd)

\* In a byte with k operations to go, and between two messages.
InFrame(k) ==
  /\ k > 3 => /\ Holds(Before) /\ Listens
              /\ shift = Sending \div 2 ^ (8 - n)
              /\ IF Behind = 0 THEN state = "addr"
                 ELSE Expects(Before, Payload(msgs)[Before] % 2 = 1)
  /\ k \in {1, 2, 3} => Holds(IF pulls THEN Behind ELSE Before)
  /\ k \in {2, 3} => /\ pulls => state = "data"
                     /\ (Sending % 2) = 0 => out = "low" /\ sda = 0
  /\ k = 1 => /\ pulls => Expects(Behind, Sending % 2 = 1)
              /\ Listens /\ n = 0 => shift = 0
  /\ k = 0 => /\ Holds(IF nack THEN Before ELSE Behind)
              /\ ~nack => shift = 0 /\ Expects(Behind, Sending % 2 = 1)

InMessage ==
  /\ Holds(Behind)
  /\ gpio # <<>> => i = 1
  /\ Listens => shift = 0
  /\ i = 1 => state # "data"
  /\ i > 1 => Expects(Behind, Payload(msgs)[Behind] % 2 = 1)

\* The transfer ends with all of them taken, or with not all and no success.
AtEnd ==
  \/ ret = Len(msgs) /\ Holds(Len(Payload(msgs)))
  \/ /\ ret = 0 /\ Holds(Len(received))
     /\ received = <<>> \/ Len(received) < Len(Payload(msgs))

Delivery ==
  msgs # <<>> /\ ~Mistakable(msgs) =>
    /\ pc = "message" => InMessage
    /\ pc = "ack" => InFrame(Len(gpio))
    /\ pc \in {"deinit", "idle"} => AtEnd

BusSafe  == BusTypeOK /\ Counters /\ Wires
BusSound == BusTypeOK /\ Counters /\ Wires /\ Delivery

\* The operations of a byte: its eight bits, each with its clock ...
LEMMA BitsAre ==
  ASSUME NEW b \in 0..255
  PROVE  /\ Bits(b) \in Seq(Operations) /\ Len(Bits(b)) = 24
         /\ \A c \in 0..7 : /\ Bits(b)[3 * c + 1] = SDA(Level1(Bit(b, c)))
                            /\ Bits(b)[3 * c + 2] = SCL("high")
                            /\ Bits(b)[3 * c + 3] = SCL("low")
<1>1. Len(Bits(b)) = 24  BY DEF Bits
<1>2. ASSUME NEW k \in 1..24 PROVE Bits(b)[k] \in Operations
  <2>1. ((k - 1) % 3) + 1 \in {1, 2, 3}  OBVIOUS
  <2>2. Bits(b)[k] \in {SDA("high"), SDA("low"), SCL("high"), SCL("low")}
    BY <2>1 DEF Bits, Level1
  <2>3. {SDA("high"), SDA("low"), SCL("high"), SCL("low")} \subseteq Operations
    BY DEF SDA, SCL, Operations
  <2> QED  BY <2>2, <2>3
<1>3. Bits(b) \in [1..24 -> Operations]
  BY <1>2 DEF Bits
<1>4. Bits(b) \in Seq(Operations)
  <2>1. 24 \in Nat  OBVIOUS
  <2>2. Bits(b) \in UNION {[1..size -> Operations] : size \in Nat}  BY <1>3, <2>1
  <2> QED  BY <2>2, SeqDef, Zenon
<1>5. ASSUME NEW c \in 0..7
      PROVE  /\ Bits(b)[3 * c + 1] = SDA(Level1(Bit(b, c)))
             /\ Bits(b)[3 * c + 2] = SCL("high")
             /\ Bits(b)[3 * c + 3] = SCL("low")
  BY DEF Bits, Bit
<1> QED  BY <1>1, <1>4, <1>5

\* ... and its acknowledgement.
LEMMA FrameIs ==
  ASSUME NEW b \in 0..255
  PROVE  /\ Frame(b) \in Seq(Operations) /\ Len(Frame(b)) = 27
         /\ \A c \in 0..7 : /\ Frame(b)[3 * c + 1] = SDA(Level1(Bit(b, c)))
                            /\ Frame(b)[3 * c + 2] = SCL("high")
                            /\ Frame(b)[3 * c + 3] = SCL("low")
         /\ Frame(b)[25] = SCL("high") /\ Frame(b)[26] = SDA("in") /\ Frame(b)[27] = SCL("low")
<1> DEFINE s == Bits(b)
           t == ReadNackAck
           m == 24
           p == 3
<1>1. s \in Seq(Operations) /\ Len(s) = m
  BY BitsAre
<1>2. t \in Seq(Operations) /\ Len(t) = p
  BY DEF ReadNackAck, Operations, SDA, SCL
<1>3. t[1] = SCL("high") /\ t[2] = SDA("in") /\ t[3] = SCL("low")
  BY DEF ReadNackAck
<1>4. m + p = 27 /\ m + 1 = 25 /\ m + 2 = 26 /\ m + 3 = 27 /\ m \in Nat /\ p \in Nat
      /\ 1 \in 1..p /\ 2 \in 1..p /\ 3 \in 1..p
      /\ \A c \in 0..7 : 3 * c + 1 \in 1..m /\ 3 * c + 2 \in 1..m /\ 3 * c + 3 \in 1..m
  OBVIOUS
<1> HIDE DEF s, t, m, p
<1>5. s \o t \in Seq(Operations) /\ Len(s \o t) = m + p
  BY <1>1, <1>2
<1>6. \A k \in 1..m : (s \o t)[k] = s[k]
  BY <1>1, <1>2, <1>4
<1>7. \A k \in 1..p : (s \o t)[m + k] = t[k]
  <2>1. s \in Seq(Operations) /\ t \in Seq(Operations)  BY <1>1, <1>2
  <2>2. \A k \in 1..Len(t) : (s \o t)[Len(s) + k] = t[k]  BY <2>1
  <2> QED  BY <1>1, <1>2, <2>2
<1>8. (s \o t)[m + 1] = t[1] /\ (s \o t)[m + 2] = t[2] /\ (s \o t)[m + 3] = t[3]
  BY <1>4, <1>7, Zenon
<1>9. \A c \in 0..7 : /\ (s \o t)[3 * c + 1] = SDA(Level1(Bit(b, c)))
                      /\ (s \o t)[3 * c + 2] = SCL("high")
                      /\ (s \o t)[3 * c + 3] = SCL("low")
  BY <1>4, <1>6, BitsAre, Zenon DEF s
<1>10. Frame(b) = s \o t  BY DEF Frame, s, t
<1>11. /\ Frame(b)[m + 1] = SCL("high") /\ Frame(b)[m + 2] = SDA("in")
       /\ Frame(b)[m + 3] = SCL("low") /\ Len(Frame(b)) = m + p
  BY <1>3, <1>5, <1>8, <1>10
<1>12. /\ Frame(b)[25] = SCL("high") /\ Frame(b)[26] = SDA("in")
       /\ Frame(b)[27] = SCL("low") /\ Len(Frame(b)) = 27
  BY <1>4, <1>11
<1>13. Frame(b) \in Seq(Operations)
  BY <1>5, <1>10
<1>14. \A c \in 0..7 : /\ Frame(b)[3 * c + 1] = SDA(Level1(Bit(b, c)))
                       /\ Frame(b)[3 * c + 2] = SCL("high")
                       /\ Frame(b)[3 * c + 3] = SCL("low")
  BY <1>9, <1>10, Zenon
<1> QED  BY <1>12, <1>13, <1>14, Zenon

\* The operation of a byte that is due with k to go.
LEMMA FrameSteps ==
  ASSUME NEW b \in 0..255, NEW k \in 1..27
  PROVE  /\ FrameLeft(b, k) # <<>>
         /\ Tail(FrameLeft(b, k)) = FrameLeft(b, k - 1)
         /\ FrameLeft(b, 0) = <<>> /\ FrameLeft(b, 27) = Frame(b)
         /\ Head(FrameLeft(b, k)) = Frame(b)[28 - k]
<1> DEFINE size == 27
<1>1. size \in Nat /\ Frame(b) \in Seq(Operations) /\ Len(Frame(b)) = size /\ k \in 1..size
  BY FrameIs, Zenon
<1>2. size + 1 = 28 /\ 28 - 27 = 1 /\ 28 - 0 = 28 OBVIOUS
<1> HIDE DEF size
<1>3. /\ SubSeq(Frame(b), size + 1 - k, size) # <<>>
      /\ Head(SubSeq(Frame(b), size + 1 - k, size)) = Frame(b)[size + 1 - k]
      /\ Tail(SubSeq(Frame(b), size + 1 - k, size)) = SubSeq(Frame(b), size + 1 - (k - 1), size)
      /\ SubSeq(Frame(b), size + 1, size) = <<>> /\ SubSeq(Frame(b), 1, size) = Frame(b)
  BY <1>1, EndSteps
<1> QED  BY <1>2, <1>3 DEF size, FrameLeft

\* Which one it is.
LEMMA FrameOperation ==
  ASSUME NEW b \in 0..255, NEW k \in 1..27
  PROVE  \/ k > 3 /\ (k % 3) = 0 /\ Frame(b)[28 - k] = SDA(Level1(Bit(b, (27 - k) \div 3)))
         \/ k > 3 /\ (k % 3) = 2 /\ Frame(b)[28 - k] = SCL("high")
         \/ k > 3 /\ (k % 3) = 1 /\ Frame(b)[28 - k] = SCL("low")
         \/ k = 3 /\ Frame(b)[28 - k] = SCL("high")
         \/ k = 2 /\ Frame(b)[28 - k] = SDA("in")
         \/ k = 1 /\ Frame(b)[28 - k] = SCL("low")
<1>1. CASE k > 3
  <2> DEFINE c == (27 - k) \div 3
  <2>1. c \in 0..7  BY <1>1
  <2>2. (k % 3) = 0 => 28 - k = 3 * c + 1  BY <1>1
  <2>3. (k % 3) = 2 => 28 - k = 3 * c + 2  BY <1>1
  <2>4. (k % 3) = 1 => 28 - k = 3 * c + 3  BY <1>1
  <2>5. (k % 3) \in {0, 1, 2}  OBVIOUS
  <2>6. /\ Frame(b)[3 * c + 1] = SDA(Level1(Bit(b, c))) /\ Frame(b)[3 * c + 2] = SCL("high")
        /\ Frame(b)[3 * c + 3] = SCL("low")
    BY <2>1, FrameIs, Zenon
  <2> HIDE DEF c
  <2>7. CASE (k % 3) = 0  BY <1>1, <2>2, <2>6, <2>7 DEF c
  <2>8. CASE (k % 3) = 2  BY <1>1, <2>3, <2>6, <2>8
  <2>9. CASE (k % 3) = 1  BY <1>1, <2>4, <2>6, <2>9
  <2> QED  BY <2>5, <2>7, <2>8, <2>9
<1>2. CASE k = 3
  <2>1. 28 - k = 25  BY <1>2
  <2> QED  BY <1>2, <2>1, FrameIs, Zenon
<1>3. CASE k = 2
  <2>1. 28 - k = 26  BY <1>3
  <2> QED  BY <1>3, <2>1, FrameIs, Zenon
<1>4. CASE k = 1
  <2>1. 28 - k = 27  BY <1>4
  <2> QED  BY <1>4, <2>1, FrameIs, Zenon
<1> QED  BY <1>1, <1>2, <1>3, <1>4

\* The operations that begin a transfer.
LEMMA BeginIs ==
  /\ Begin \in Seq(Operations) /\ Len(Begin) = 6
  /\ Begin[1] = SCL("high") /\ Begin[2] = SDA("high") /\ Begin[3] = SDA("high")
  /\ Begin[4] = SCL("high") /\ Begin[5] = SDA("low") /\ Begin[6] = SCL("low")
<1>1. Begin \in Seq(Operations)
  BY DEF Begin, Sart, Operations, SDA, SCL
<1>2. Len(Begin) = 6  BY DEF Begin, Sart
<1>3. Begin[1] = SCL("high") /\ Begin[2] = SDA("high") /\ Begin[3] = SDA("high")
  BY DEF Begin, Sart
<1>4. Begin[4] = SCL("high") /\ Begin[5] = SDA("low") /\ Begin[6] = SCL("low")
  BY DEF Begin, Sart
<1> QED  BY <1>1, <1>2, <1>3, <1>4

\* One step along them, and along those that end it.
LEMMA BeginSteps ==
  ASSUME NEW k \in 1..6
  PROVE  /\ BeginLeft(k) # <<>>
         /\ Tail(BeginLeft(k)) = BeginLeft(k - 1)
         /\ BeginLeft(0) = <<>> /\ BeginLeft(6) = Begin
         /\ Head(BeginLeft(k)) = Begin[7 - k]
<1> DEFINE size == 6
<1>1. size \in Nat /\ Begin \in Seq(Operations) /\ Len(Begin) = size /\ k \in 1..size
  BY BeginIs
<1>2. size + 1 = 7 /\ 7 - 6 = 1 /\ 7 - 0 = 7  OBVIOUS
<1> HIDE DEF size
<1>3. /\ SubSeq(Begin, size + 1 - k, size) # <<>>
      /\ Head(SubSeq(Begin, size + 1 - k, size)) = Begin[size + 1 - k]
      /\ Tail(SubSeq(Begin, size + 1 - k, size)) = SubSeq(Begin, size + 1 - (k - 1), size)
      /\ SubSeq(Begin, size + 1, size) = <<>> /\ SubSeq(Begin, 1, size) = Begin
  BY <1>1, EndSteps
<1> QED  BY <1>2, <1>3 DEF size, BeginLeft

\* ... the end.
LEMMA StopSteps ==
  ASSUME NEW k \in 1..4
  PROVE  /\ StopLeft(k) # <<>>
         /\ Tail(StopLeft(k)) = StopLeft(k - 1)
         /\ StopLeft(0) = <<>> /\ StopLeft(4) = Stop
         /\ Head(StopLeft(k)) = Stop[5 - k]
<1> DEFINE size == 4
<1>1. Stop \in Seq(Operations) /\ Len(Stop) = size
  BY DEF Stop, Operations, SDA, SCL
<1>2. size + 1 = 5 /\ 5 - 4 = 1 /\ 5 - 0 = 5 /\ size \in Nat /\ k \in 1..size  OBVIOUS
<1> HIDE DEF size
<1>3. /\ SubSeq(Stop, size + 1 - k, size) # <<>>
      /\ Head(SubSeq(Stop, size + 1 - k, size)) = Stop[size + 1 - k]
      /\ Tail(SubSeq(Stop, size + 1 - k, size)) = SubSeq(Stop, size + 1 - (k - 1), size)
      /\ SubSeq(Stop, size + 1, size) = <<>> /\ SubSeq(Stop, 1, size) = Stop
  BY <1>1, <1>2, EndSteps
<1> QED  BY <1>2, <1>3 DEF size, StopLeft

\* A byte is the one of its first bits, the next bit, and what follows.
LEMMA BitFollows ==
  ASSUME NEW b \in 0..255, NEW c \in 0..7
  PROVE  b \div 2 ^ (8 - (c + 1)) = 2 * (b \div 2 ^ (8 - c)) + Bit(b, c)
<1>1. CASE c = 0  BY <1>1 DEF Bit
<1>2. CASE c = 1  BY <1>2 DEF Bit
<1>3. CASE c = 2  BY <1>3 DEF Bit
<1>4. CASE c = 3  BY <1>4 DEF Bit
<1>5. CASE c = 4  BY <1>5 DEF Bit
<1>6. CASE c = 5  BY <1>6 DEF Bit
<1>7. CASE c = 6  BY <1>7 DEF Bit
<1>8. CASE c = 7  BY <1>8 DEF Bit
<1> QED  BY <1>1, <1>2, <1>3, <1>4, <1>5, <1>6, <1>7, <1>8

\* A bit is 0 or 1.
LEMMA BitIs ==
  ASSUME NEW b \in 0..255, NEW c \in 0..7
  PROVE  Bit(b, c) \in {0, 1}
<1>1. CASE c = 0  BY <1>1 DEF Bit
<1>2. CASE c = 1  BY <1>2 DEF Bit
<1>3. CASE c = 2  BY <1>3 DEF Bit
<1>4. CASE c = 3  BY <1>4 DEF Bit
<1>5. CASE c = 4  BY <1>5 DEF Bit
<1>6. CASE c = 5  BY <1>6 DEF Bit
<1>7. CASE c = 6  BY <1>7 DEF Bit
<1>8. CASE c = 7  BY <1>8 DEF Bit
<1> QED  BY <1>1, <1>2, <1>3, <1>4, <1>5, <1>6, <1>7, <1>8

\* What the wires and the slave may come to.
LEMMA WireTypes ==
  ASSUME BusTypeOK
  PROVE  /\ \A drive \in {"low", "high", "in"} : SdaBecomes(drive) =>
              /\ scl' = scl /\ sda' \in {0, 1} /\ out' = drive
              /\ pulls' = pulls /\ received' = received
              /\ state' \in {"idle", "addr", "data", "deaf"} /\ n' \in Nat /\ shift' \in Nat
              /\ drive = "low" => sda' = 0
              /\ drive # "low" /\ ~pulls => sda' = 1
              /\ drive = "in" /\ pulls => sda' = 0
              /\ scl = 0 \/ sda' = sda => UNCHANGED <<state, n, shift>>
              /\ scl = 1 /\ sda' # sda =>
                   n' = 0 /\ shift' = 0 /\ state' = IF sda' = 0 THEN "addr" ELSE "idle"
         /\ SclRises =>
              /\ scl' = 1 /\ sda' \in {0, 1} /\ n' \in Nat /\ shift' \in Nat
              /\ UNCHANGED <<out, pulls, state, received>>
              /\ out = "low" => sda' = 0
              /\ out # "low" /\ ~pulls => sda' = 1
         /\ SclFalls =>
              /\ scl' = 0 /\ sda' \in {0, 1} /\ out' = out
              /\ pulls' \in BOOLEAN /\ state' \in {"idle", "addr", "data", "deaf"}
              /\ n' \in Nat /\ shift' \in Nat /\ received' \in Seq(Nat)
              /\ out = "low" => sda' = 0
              /\ out # "low" /\ ~pulls' => sda' = 1
<1>1. /\ scl \in {0, 1} /\ sda \in {0, 1} /\ out \in {"low", "high", "in"}
      /\ pulls \in BOOLEAN /\ state \in {"idle", "addr", "data", "deaf"}
      /\ n \in Nat /\ shift \in Nat /\ received \in Seq(Nat)
  BY DEF BusTypeOK
<1>2. \A drive \in {"low", "high", "in"}, held \in BOOLEAN :
        /\ Level(drive, held) \subseteq {0, 1}
        /\ drive = "low" => Level(drive, held) = {0}
        /\ drive # "low" /\ ~held => Level(drive, held) = {1}
        /\ drive = "in" /\ held => Level(drive, held) = {0}
  BY DEF Level
<1>3. ASSUME NEW drive \in {"low", "high", "in"}, SdaBecomes(drive)
      PROVE  /\ scl' = scl /\ sda' \in {0, 1} /\ out' = drive
             /\ pulls' = pulls /\ received' = received
             /\ state' \in {"idle", "addr", "data", "deaf"} /\ n' \in Nat /\ shift' \in Nat
             /\ drive = "low" => sda' = 0
             /\ drive # "low" /\ ~pulls => sda' = 1
             /\ drive = "in" /\ pulls => sda' = 0
             /\ scl = 0 \/ sda' = sda => UNCHANGED <<state, n, shift>>
             /\ scl = 1 /\ sda' # sda =>
                  n' = 0 /\ shift' = 0 /\ state' = IF sda' = 0 THEN "addr" ELSE "idle"
  <2>1. sda' \in Level(drive, pulls) /\ out' = drive /\ scl' = scl
    BY <1>3 DEF SdaBecomes
  <2>2. \/ (scl = 0 \/ sda' = sda) /\ UNCHANGED <<pulls, state, n, shift, received>>
        \/ /\ ~(scl = 0 \/ sda' = sda)
           /\ state' = IF sda' = 0 THEN "addr" ELSE "idle"
           /\ n' = 0 /\ shift' = 0 /\ UNCHANGED <<pulls, received>>
    BY <1>3 DEF SdaBecomes, slave
  <2>3. /\ sda' \in {0, 1}
        /\ drive = "low" => sda' = 0
        /\ drive # "low" /\ ~pulls => sda' = 1
        /\ drive = "in" /\ pulls => sda' = 0
    BY <1>1, <1>2, <2>1
  <2> QED  BY <1>1, <2>1, <2>2, <2>3
<1>4. ASSUME SclRises
      PROVE  /\ scl' = 1 /\ sda' \in {0, 1} /\ n' \in Nat /\ shift' \in Nat
             /\ UNCHANGED <<out, pulls, state, received>>
             /\ out = "low" => sda' = 0
             /\ out # "low" /\ ~pulls => sda' = 1
  <2>1. sda' \in Level(out, pulls) /\ scl' = 1 /\ UNCHANGED <<out, pulls, state, received>>
    BY <1>4 DEF SclRises
  <2>2. /\ sda' \in {0, 1}
        /\ out = "low" => sda' = 0
        /\ out # "low" /\ ~pulls => sda' = 1
    BY <1>1, <1>2, <2>1
  <2>3. n' \in Nat /\ shift' \in Nat
    BY <1>1, <1>4, <2>2 DEF SclRises
  <2> QED  BY <2>1, <2>2, <2>3
<1>5. ASSUME SclFalls
      PROVE  /\ scl' = 0 /\ sda' \in {0, 1} /\ out' = out
             /\ pulls' \in BOOLEAN /\ state' \in {"idle", "addr", "data", "deaf"}
             /\ n' \in Nat /\ shift' \in Nat /\ received' \in Seq(Nat)
             /\ out = "low" => sda' = 0
             /\ out # "low" /\ ~pulls' => sda' = 1
  <2>1. sda' \in Level(out, pulls') /\ scl' = 0 /\ out' = out
    BY <1>5 DEF SclFalls
  <2>2. pulls' \in BOOLEAN
    BY <1>5 DEF SclFalls, SlaveAnswers
  <2>3. /\ sda' \in {0, 1}
        /\ out = "low" => sda' = 0
        /\ out # "low" /\ ~pulls' => sda' = 1
    BY <1>1, <1>2, <2>1, <2>2
  <2>4. state' \in {"idle", "addr", "data", "deaf"} /\ n' \in Nat /\ shift' \in Nat
    BY <1>1, <1>5 DEF SclFalls, SlaveAnswers
  <2>5. received' \in Seq(Nat)
    <3>1. Append(received, shift) \in Seq(Nat)  BY <1>1
    <3> QED  BY <1>1, <1>5, <3>1 DEF SclFalls, SlaveAnswers
  <2> QED  BY <2>1, <2>2, <2>3, <2>4, <2>5
<1> QED  BY <1>3, <1>4, <1>5

\* The pin operation that is due.
Operate == DriveSDA \/ ReadSDA \/ SetSCL \/ ClearSCL

\* An operation is taken off the list and does to its wire what it says; nothing else
\* of etx_i2c_xfer changes, and the types stay.
LEMMA OperationIs ==
  ASSUME BusTypeOK, Operate
  PROVE  /\ gpio # <<>> /\ gpio' = Tail(gpio) /\ Len(gpio') = Len(gpio) - 1 /\ Len(gpio) \in Nat
         /\ UNCHANGED <<pc, msgs, i, num, ret, xfers>>
         /\ Head(gpio) = SCL("high") => SclRises /\ nack' = nack
         /\ Head(gpio) = SCL("low") => SclFalls /\ nack' = nack
         /\ \A drive \in {"low", "high"} :
              Head(gpio) = SDA(drive) => SdaBecomes(drive) /\ nack' = nack
         /\ Head(gpio) = SDA("in") => SdaBecomes("in") /\ nack' = (sda' = 1)
         /\ BusTypeOK'
<1>1. gpio \in Seq(Operations)  BY DEF BusTypeOK
<1>2. gpio # <<>> /\ gpio' = Tail(gpio) /\ UNCHANGED <<pc, msgs, i, num, ret, xfers>>
  BY DEF Operate, DriveSDA, ReadSDA, SetSCL, ClearSCL, Gpio, master
<1>3. gpio' \in Seq(Operations) /\ Len(gpio') = Len(gpio) - 1 /\ Len(gpio) \in Nat
  BY <1>1, <1>2
<1>4. CASE DriveSDA
  <2>1. /\ Head(gpio).pin = "SDA" /\ Head(gpio).level \in {"low", "high"}
        /\ SdaBecomes(Head(gpio).level) /\ nack' = nack
    BY <1>4 DEF DriveSDA, Gpio
  <2>2. BusTypeOK'
    BY <1>2, <1>3, <2>1, WireTypes DEF BusTypeOK
  <2> QED  BY <1>2, <1>3, <2>1, <2>2 DEF SCL, SDA
<1>5. CASE ReadSDA
  <2>1. /\ Head(gpio).pin = "SDA" /\ Head(gpio).level = "in"
        /\ SdaBecomes("in") /\ nack' = (sda' = 1)
    BY <1>5 DEF ReadSDA, Gpio
  <2>2. nack' \in BOOLEAN  BY <2>1
  <2>3. BusTypeOK'
    BY <1>2, <1>3, <2>1, <2>2, WireTypes DEF BusTypeOK
  <2> QED  BY <1>2, <1>3, <2>1, <2>3 DEF SCL, SDA
<1>6. CASE SetSCL
  <2>1. Head(gpio).pin = "SCL" /\ Head(gpio).level = "high" /\ SclRises /\ nack' = nack
    BY <1>6 DEF SetSCL, Gpio
  <2>2. BusTypeOK'
    BY <1>2, <1>3, <2>1, WireTypes DEF BusTypeOK
  <2> QED  BY <1>2, <1>3, <2>1, <2>2 DEF SCL, SDA
<1>7. CASE ClearSCL
  <2>1. Head(gpio).pin = "SCL" /\ Head(gpio).level = "low" /\ SclFalls /\ nack' = nack
    BY <1>7 DEF ClearSCL, Gpio
  <2>2. BusTypeOK'
    BY <1>2, <1>3, <2>1, WireTypes DEF BusTypeOK
  <2> QED  BY <1>2, <1>3, <2>1, <2>2 DEF SCL, SDA
<1> QED  BY <1>4, <1>5, <1>6, <1>7 DEF Operate

\* An answer of the slave is due, or SCL falls without one.
LEMMA NoAnswer ==
  ASSUME SclFalls, ~(Listens /\ n = 8)
  PROVE  /\ pulls' = FALSE /\ UNCHANGED <<state, received>>
         /\ n = 9 => n' = 0 /\ shift' = 0
         /\ n # 9 => n' = n /\ shift' = shift
BY DEF SclFalls, Listens

\* The operation of the begin of a transfer that is due.
LEMMA BeginOperates ==
  ASSUME BusTypeOK, Wires, Operate, pc = "message"
  PROVE  \E k \in 1..6 : /\ k = Len(gpio) /\ Len(gpio') = k - 1 /\ gpio' = BeginLeft(k - 1)
                         /\ pc' = "message" /\ AtBegin(k) /\ Head(gpio) = Begin[7 - k]
<1>1. PICK k \in Nat : /\ k = Len(gpio) /\ gpio # <<>> /\ gpio' = Tail(gpio) /\ Len(gpio') = k - 1
                       /\ pc' = "message"
  BY OperationIs
<1>2. k \in 1..6 /\ gpio = BeginLeft(k) /\ AtBegin(k)
  <2>1. k > 0  BY <1>1 DEF BusTypeOK
  <2>2. Len(gpio) <= 6 /\ gpio = BeginLeft(Len(gpio)) /\ AtBegin(Len(gpio))
    BY <1>1 DEF Wires
  <2>3. k = Len(gpio)  BY <1>1
  <2>4. k <= 6  BY <2>2, <2>3, Zenon
  <2>5. k \in 1..6  BY <2>1, <2>4
  <2> QED  BY <2>2, <2>3, <2>5
<1>3. gpio' = BeginLeft(k - 1) /\ Head(gpio) = Begin[7 - k]
  BY <1>1, <1>2, BeginSteps
<1> QED  BY <1>1, <1>2, <1>3

\* The begin of a transfer: the slave sees its START, and only that.
LEMMA BeginGoesOn ==
  ASSUME BusTypeOK, Wires, Operate, pc = "message"
  PROVE  Wires'
<1>1. PICK k \in 1..6 : /\ k = Len(gpio) /\ Len(gpio') = k - 1 /\ gpio' = BeginLeft(k - 1)
                        /\ pc' = "message" /\ AtBegin(k) /\ Head(gpio) = Begin[7 - k]
  BY BeginOperates
<1>2. k \in 1..6 /\ AtBegin(k)  BY <1>1
<1>3. gpio' = BeginLeft(k - 1) /\ Head(gpio) = Begin[7 - k]  BY <1>1
<1>4. /\ scl \in {0, 1} /\ sda \in {0, 1} /\ out \in {"low", "high", "in"}
      /\ pulls \in BOOLEAN /\ state \in {"idle", "addr", "data", "deaf"} /\ n \in Nat
  BY DEF BusTypeOK
<1>5. AtBegin(k - 1)'
  <2>1. CASE k \in {6, 3}
    <3>1. Head(gpio) = SCL("high")
      <4>1. 7 - k \in {1, 4}  BY <2>1
      <4> QED  BY <1>3, <4>1, BeginIs
    <3>2. SclRises  BY <3>1, OperationIs
    <3>3. scl' = 1 /\ sda' = 1 /\ UNCHANGED <<out, pulls, state>> /\ ~pulls /\ state = "idle"
      BY <1>2, <1>4, <2>1, <3>2, WireTypes DEF AtBegin
    <3>4. n' = n  BY <3>2, <3>3 DEF SclRises
    <3> QED  BY <1>2, <2>1, <3>3, <3>4 DEF AtBegin
  <2>2. CASE k \in {5, 4}
    <3>1. Head(gpio) = SDA("high")
      <4>1. 7 - k \in {2, 3}  BY <2>2
      <4> QED  BY <1>3, <4>1, BeginIs
    <3>2. SdaBecomes("high")  BY <3>1, OperationIs
    <3>3. ~pulls /\ sda = 1 /\ state = "idle" /\ n = 0 /\ scl = 1
      BY <1>2, <2>2 DEF AtBegin
    <3>4. sda' = 1 /\ out' = "high" /\ pulls' = pulls /\ scl' = scl /\ UNCHANGED <<state, n>>
      BY <3>2, <3>3, WireTypes
    <3> QED  BY <2>2, <3>3, <3>4 DEF AtBegin
  <2>3. CASE k = 2
    <3>1. Head(gpio) = SDA("low")
      <4>1. 7 - k = 5  BY <2>3
      <4> QED  BY <1>3, <4>1, BeginIs
    <3>2. SdaBecomes("low")  BY <3>1, OperationIs
    <3>3. ~pulls /\ sda = 1 /\ scl = 1
      BY <1>2, <2>3 DEF AtBegin
    <3>4. sda' = 0 /\ pulls' = pulls /\ scl' = scl /\ state' = "addr" /\ n' = 0
      BY <3>2, <3>3, WireTypes
    <3> QED  BY <2>3, <3>3, <3>4 DEF AtBegin, Listens
  <2>4. CASE k = 1
    <3>1. Head(gpio) = SCL("low")
      <4>1. 7 - k = 6  BY <2>4
      <4> QED  BY <1>3, <4>1, BeginIs
    <3>2. SclFalls  BY <3>1, OperationIs
    <3>3. Listens /\ n = 0  BY <1>2, <2>4 DEF AtBegin
    <3>4. scl' = 0 /\ pulls' = FALSE /\ UNCHANGED state /\ n' = n
      BY <3>2, <3>3, NoAnswer, WireTypes
    <3> QED  BY <2>4, <3>3, <3>4 DEF AtBegin, Listens
  <2> QED  BY <1>2, <2>1, <2>2, <2>3, <2>4
<1>6. Len(gpio') <= 6 /\ gpio' = BeginLeft(Len(gpio')) /\ AtBegin(Len(gpio))'
  <2>1. AtBegin(Len(gpio))' = AtBegin(k - 1)'
    BY <1>1 DEF AtBegin
  <2>2. gpio' = BeginLeft(Len(gpio'))  BY <1>1, <1>3
  <2>3. k \in 1..6  BY <1>2
  <2>4. Len(gpio') = k - 1  BY <1>1
  <2>5. Len(gpio') <= 6  BY <2>3, <2>4
  <2> QED  BY <1>5, <2>1, <2>2, <2>5
<1> QED  BY <1>1, <1>6 DEF Wires

\* A message, its address and its bytes.
LEMMA MessageIs ==
  ASSUME NEW ms \in Transfers, NEW j \in 1..Len(ms)
  PROVE  /\ 2 * ms[j].addr \in 0..255 /\ ((2 * ms[j].addr) % 2) = 0
         /\ ms[j].buf \in Seq(0..255) /\ Len(ms[j].buf) \in Nat
         /\ \A k \in 1..Len(ms[j].buf) : ms[j].buf[k] \in 0..255
<1>1. ms \in Seq(Message)
  BY BusAssumption DEF Message
<1>2. ms[j] \in Message
  BY <1>1
<1>3. ms[j].addr \in 0..127 /\ ms[j].buf \in Seq(0..255)
  BY <1>2 DEF Message
<1> DEFINE a == ms[j].addr
           s == ms[j].buf
<1>4. a \in 0..127 /\ s \in Seq(0..255)
  BY <1>3
<1> HIDE DEF a, s
<1>5. 2 * a \in 0..255 /\ ((2 * a) % 2) = 0
  BY <1>4
<1>6. Len(s) \in Nat /\ \A k \in 1..Len(s) : s[k] \in 0..255
  BY <1>4, LenProperties, ElementOfSeq
<1> QED  BY <1>4, <1>5, <1>6 DEF a, s

\* Two sequences with an element between them.
LEMMA JoinedBy ==
  ASSUME NEW S, NEW a \in Seq(S), NEW b \in Seq(S), NEW d \in S
  PROVE  /\ a \o (<<d>> \o b) \in Seq(S)
         /\ Len(a \o (<<d>> \o b)) = Len(a) + 1 + Len(b)
         /\ \A j \in 1..Len(a) : (a \o (<<d>> \o b))[j] = a[j]
         /\ (a \o (<<d>> \o b))[Len(a) + 1] = d
         /\ \A j \in 1..Len(b) : (a \o (<<d>> \o b))[Len(a) + 1 + j] = b[j]
<1> DEFINE e == <<d>> \o b
<1>1. /\ e \in Seq(S) /\ Len(e) = 1 + Len(b) /\ e[1] = d
      /\ \A j \in 1..Len(b) : e[1 + j] = b[j]
  OBVIOUS
<1>2. Len(a) \in Nat /\ Len(b) \in Nat
  OBVIOUS
<1>8. e \in Seq(S)
  BY <1>1
<1> HIDE DEF e
<1>3. /\ a \o e \in Seq(S) /\ Len(a \o e) = Len(a) + Len(e)
      /\ \A j \in 1..Len(a) : (a \o e)[j] = a[j]
  BY <1>8
<1>4. \A j \in 1..Len(e) : (a \o e)[Len(a) + j] = e[j]
  BY <1>8
<1>5. (a \o e)[Len(a) + 1] = d
  <2>1. 1 \in 1..Len(e)  BY <1>1, <1>2
  <2> QED  BY <1>1, <1>4, <2>1
<1>6. ASSUME NEW j \in 1..Len(b) PROVE (a \o e)[Len(a) + 1 + j] = b[j]
  <2>1. 1 + j \in 1..Len(e) /\ Len(a) + (1 + j) = Len(a) + 1 + j  BY <1>1, <1>2
  <2>2. (a \o e)[Len(a) + (1 + j)] = e[1 + j]  BY <1>4, <2>1
  <2> QED  BY <1>1, <2>1, <2>2
<1>7. Len(a \o e) = Len(a) + 1 + Len(b)
  BY <1>1, <1>2, <1>3
<1> QED  BY <1>3, <1>5, <1>6, <1>7 DEF e

\* The payload of a transfer, position by position.
LEMMA PayloadIs ==
  ASSUME NEW ms \in Transfers
  PROVE  /\ Len(ms) \in {1, 2} /\ ms # <<>>
         /\ Payload(ms) \in Seq(0..255)
         /\ \A j \in 1..Len(ms[1].buf) : Payload(ms)[j] = ms[1].buf[j]
         /\ Len(ms) = 1 => Len(Payload(ms)) = Len(ms[1].buf)
         /\ Len(ms) = 2 =>
              /\ Len(Payload(ms)) = Len(ms[1].buf) + 1 + Len(ms[2].buf)
              /\ Payload(ms)[Len(ms[1].buf) + 1] = 2 * ms[2].addr
              /\ \A j \in 1..Len(ms[2].buf) :
                   Payload(ms)[Len(ms[1].buf) + 1 + j] = ms[2].buf[j]
<1>1. Len(ms) \in {1, 2} /\ ms # <<>>
  <2>1. Len(ms) \in {1, 2}  BY BusAssumption
  <2> QED  BY <2>1
<1>2. CASE Len(ms) = 1
  <2>1. Payload(ms) = ms[1].buf  BY <1>2 DEF Payload
  <2>2. 1 \in 1..Len(ms)  BY <1>2
  <2>3. ms[1].buf \in Seq(0..255)  BY <2>2, MessageIs
  <2> QED  BY <1>1, <1>2, <2>1, <2>3
<1>3. CASE Len(ms) = 2
  <2> DEFINE a == ms[1].buf
             b == ms[2].buf
             d == 2 * ms[2].addr
  <2>1. Payload(ms) = a \o (<<d>> \o b)
    BY <1>3 DEF Payload
  <2>2. 1 \in 1..Len(ms) /\ 2 \in 1..Len(ms)  BY <1>3
  <2>3. a \in Seq(0..255)  BY <2>2, MessageIs
  <2>4. b \in Seq(0..255)  BY <2>2, MessageIs
  <2>5. d \in 0..255  BY <2>2, MessageIs
  <2> HIDE DEF a, b, d
  <2>6. /\ Payload(ms) \in Seq(0..255)
        /\ \A j \in 1..Len(a) : Payload(ms)[j] = a[j]
        /\ Len(Payload(ms)) = Len(a) + 1 + Len(b)
        /\ Payload(ms)[Len(a) + 1] = d
        /\ \A j \in 1..Len(b) : Payload(ms)[Len(a) + 1 + j] = b[j]
    BY <2>1, <2>3, <2>4, <2>5, JoinedBy
  <2>7. Len(ms) # 1  BY <1>3
  <2> QED  BY <1>1, <2>6, <2>7 DEF a, b, d
<1> QED  BY <1>1, <1>2, <1>3

\* The byte on the wire is the address or the last byte of the payload begun.
LEMMA SendingIs ==
  ASSUME BusTypeOK, Counters, pc = "ack"
  PROVE  /\ Sending \in 0..255
         /\ num = 0 => (Sending % 2) = 0
         /\ Behind \in 0..Len(Payload(msgs)) /\ Before \in Nat
         /\ Behind = 0 => num = 0
         /\ Behind > 0 => Payload(msgs)[Behind] = Sending
<1>1. /\ msgs \in Transfers /\ Len(msgs) \in {1, 2} /\ i \in 1..Len(msgs) /\ num \in Nat
      /\ num <= Len(msgs[i].buf)
  <2>1. /\ msgs \in Transfers /\ i \in 1..3 /\ i <= Len(msgs) /\ num \in Nat
        /\ num <= Len(msgs[i].buf)
    BY DEF BusTypeOK, Counters
  <2>2. Len(msgs) \in {1, 2}  BY <2>1, PayloadIs
  <2> QED  BY <2>1, <2>2
<1>2. /\ 2 * msgs[i].addr \in 0..255 /\ ((2 * msgs[i].addr) % 2) = 0
      /\ Len(msgs[i].buf) \in Nat
      /\ \A k \in 1..Len(msgs[i].buf) : msgs[i].buf[k] \in 0..255
  BY <1>1, MessageIs
<1>3. Sending \in 0..255 /\ (num = 0 => (Sending % 2) = 0)
  <2>1. CASE num = 0
    <3>1. Sending = 2 * msgs[i].addr  BY <2>1 DEF Sending
    <3> QED  BY <1>2, <3>1
  <2>2. CASE num # 0
    <3>1. num \in 1..Len(msgs[i].buf)  BY <1>1, <1>2, <2>2
    <3>2. Sending = msgs[i].buf[num]  BY <2>2 DEF Sending
    <3> QED  BY <1>2, <2>2, <3>1, <3>2
  <2> QED  BY <2>1, <2>2
<1>4. Len(msgs[1].buf) \in Nat /\ (Len(msgs) = 2 => Len(msgs[2].buf) \in Nat)
  <2>1. 1 \in 1..Len(msgs) /\ (Len(msgs) = 2 => 2 \in 1..Len(msgs))  BY <1>1
  <2> QED  BY <1>1, <2>1, MessageIs
<1> DEFINE l == Len(Payload(msgs))
           a == Len(msgs[1].buf)
<1>5. CASE i = 1
  <2>1. Behind = num  BY <1>5 DEF Behind
  <2>2. num <= a  BY <1>1, <1>5
  <2>3. a <= l /\ l \in Nat
    <3>1. CASE Len(msgs) = 1
      <4>1. l = a  BY <1>1, <3>1, PayloadIs
      <4> QED  BY <1>4, <4>1
    <3>2. CASE Len(msgs) = 2
      <4> DEFINE b == Len(msgs[2].buf)
      <4>1. l = a + 1 + b  BY <1>1, <3>2, PayloadIs
      <4>2. a \in Nat /\ b \in Nat  BY <1>4, <3>2
      <4> HIDE DEF a, b, l
      <4> QED  BY <4>1, <4>2
    <3> QED  BY <1>1, <3>1, <3>2
  <2>4. num > 0 => Payload(msgs)[num] = msgs[1].buf[num]
    <3>1. num > 0 => num \in 1..Len(msgs[1].buf)  BY <1>1, <1>4, <2>2
    <3> QED  BY <1>1, <3>1, PayloadIs
  <2>5. Behind \in 0..l /\ Before \in Nat
    <3> HIDE DEF a, l
    <3> QED  BY <1>1, <1>4, <2>1, <2>2, <2>3 DEF Before, a
  <2>6. Behind > 0 => Payload(msgs)[Behind] = Sending
    BY <1>1, <1>5, <2>1, <2>4 DEF Sending
  <2> QED  BY <1>3, <2>1, <2>5, <2>6
<1>6. CASE i = 2
  <2>1. Len(msgs) = 2  BY <1>1, <1>6
  <2>2. Behind = a + 1 + num
    <3>1. Behind = a + (1 + num)  BY <1>6 DEF Behind
    <3>2. a \in Nat /\ num \in Nat  BY <1>1, <1>4
    <3> HIDE DEF a
    <3> QED  BY <3>1, <3>2
  <2>3. l = a + 1 + Len(msgs[2].buf)
    BY <1>1, <2>1, PayloadIs
  <2>4. num <= Len(msgs[2].buf)  BY <1>1, <1>6
  <2>5. Payload(msgs)[Behind] = Sending
    <3>1. CASE num = 0
      <4>1. Behind = a + 1
        <5> HIDE DEF a
        <5> QED  BY <1>4, <2>2, <3>1 DEF a
      <4>2. Payload(msgs)[a + 1] = 2 * msgs[2].addr  BY <1>1, <2>1, PayloadIs
      <4> QED  BY <1>6, <3>1, <4>1, <4>2 DEF Sending
    <3>2. CASE num # 0
      <4>1. num \in 1..Len(msgs[2].buf)  BY <1>1, <1>4, <2>1, <2>4, <3>2
      <4>2. Payload(msgs)[a + 1 + num] = msgs[2].buf[num]
        BY <1>1, <2>1, <4>1, PayloadIs
      <4> QED  BY <1>6, <2>2, <3>2, <4>2 DEF Sending
    <3> QED  BY <3>1, <3>2
  <2>6. Behind \in 0..l /\ Behind > 0 /\ Before \in Nat
    <3>1. a \in Nat /\ Len(msgs[2].buf) \in Nat  BY <1>4, <2>1
    <3> HIDE DEF a, l
    <3> QED  BY <1>1, <2>2, <2>3, <2>4, <3>1 DEF Before
  <2> QED  BY <1>3, <2>5, <2>6
<1> QED  BY <1>1, <1>5, <1>6

\* The end of a transfer.
LEMMA StopGoesOn ==
  ASSUME BusTypeOK, Wires, Operate, pc = "deinit"
  PROVE  Wires' /\ received' = received
<1>1. PICK k \in Nat : /\ k = Len(gpio) /\ gpio # <<>> /\ gpio' = Tail(gpio) /\ Len(gpio') = k - 1
                       /\ pc' = "deinit"
  BY OperationIs
<1>2. k \in 1..4 /\ gpio = StopLeft(k) /\ AtStop(k)
  <2>1. k > 0  BY <1>1 DEF BusTypeOK
  <2> QED  BY <1>1, <2>1 DEF Wires
<1>3. gpio' = StopLeft(k - 1) /\ Head(gpio) = Stop[5 - k]
  BY <1>1, <1>2, StopSteps
<1>4. /\ scl \in {0, 1} /\ sda \in {0, 1} /\ out \in {"low", "high", "in"}
      /\ pulls \in BOOLEAN /\ state \in {"idle", "addr", "data", "deaf"} /\ n \in Nat
  BY DEF BusTypeOK
<1>5. AtStop(k - 1)' /\ received' = received
  <2>1. CASE k = 4
    <3>1. Head(gpio) = SDA("low")
      <4>1. 5 - k = 1  BY <2>1
      <4> QED  BY <1>3, <4>1 DEF Stop
    <3>2. SdaBecomes("low")  BY <3>1, OperationIs
    <3>3. sda' = 0 /\ out' = "low" /\ pulls' = pulls /\ received' = received /\ ~pulls
      BY <1>2, <3>2, WireTypes DEF AtStop
    <3> QED  BY <2>1, <3>3 DEF AtStop
  <2>2. CASE k = 3
    <3>1. Head(gpio) = SCL("high")
      <4>1. 5 - k = 2  BY <2>2
      <4> QED  BY <1>3, <4>1 DEF Stop
    <3>2. SclRises  BY <3>1, OperationIs
    <3>3. /\ scl' = 1 /\ sda' = 0 /\ UNCHANGED <<out, pulls, received>>
          /\ ~pulls /\ out = "low"
      BY <1>2, <2>2, <3>2, WireTypes DEF AtStop
    <3> QED  BY <2>2, <3>3 DEF AtStop
  <2>3. CASE k = 2
    <3>1. Head(gpio) = SDA("high")
      <4>1. 5 - k = 3  BY <2>3
      <4> QED  BY <1>3, <4>1 DEF Stop
    <3>2. SdaBecomes("high")  BY <3>1, OperationIs
    <3>3. ~pulls /\ sda = 0 /\ scl = 1
      BY <1>2, <2>3 DEF AtStop
    <3>4. sda' = 1 /\ out' = "high" /\ pulls' = pulls /\ received' = received
      BY <3>2, <3>3, WireTypes
    <3>5. state' = "idle" /\ n' = 0
      BY <3>2, <3>3, <3>4, WireTypes
    <3> QED  BY <2>3, <3>3, <3>4, <3>5 DEF AtStop, AtIdle
  <2>4. CASE k = 1
    <3>1. Head(gpio) = SCL("low")
      <4>1. 5 - k = 4  BY <2>4
      <4> QED  BY <1>3, <4>1 DEF Stop
    <3>2. SclFalls  BY <3>1, OperationIs
    <3>3. AtIdle  BY <1>2, <2>4 DEF AtStop
    <3>4. pulls' = FALSE /\ UNCHANGED <<state, received>> /\ n' = n
      BY <3>2, <3>3, NoAnswer DEF AtIdle, Listens
    <3>5. sda' = 1 /\ out' = out
      BY <3>2, <3>3, <3>4, WireTypes DEF AtIdle
    <3> QED  BY <2>4, <3>3, <3>4, <3>5 DEF AtStop, AtIdle
  <2> QED  BY <1>2, <2>1, <2>2, <2>3, <2>4
<1>6. Len(gpio') <= 4 /\ gpio' = StopLeft(Len(gpio')) /\ AtStop(Len(gpio))'
  <2>1. AtStop(Len(gpio))' = AtStop(k - 1)'
    BY <1>1 DEF AtStop
  <2>2. gpio' = StopLeft(Len(gpio'))  BY <1>1, <1>3
  <2>3. k \in 1..4  BY <1>2
  <2>4. Len(gpio') = k - 1  BY <1>1
  <2>5. Len(gpio') <= 4  BY <2>3, <2>4
  <2> QED  BY <1>5, <2>1, <2>2, <2>5
<1> QED  BY <1>1, <1>5, <1>6 DEF Wires

\* The clocks from one operation of a byte to the next.
LEMMA ClocksAre ==
  ASSUME NEW k \in 1..27
  PROVE  /\ k > 3 /\ (k % 3) = 0 =>
              /\ Clocks(k - 1) = Clocks(k) /\ k - 1 > 3
              /\ ~ClockIsHigh(k) /\ ~ClockIsHigh(k - 1)
              /\ (27 - (k - 1)) \div 3 = (27 - k) \div 3
         /\ k > 3 /\ (k % 3) = 2 =>
              /\ Clocks(k - 1) = Clocks(k) + 1 /\ Clocks(k) = (27 - k) \div 3 /\ Clocks(k) \in 0..7
              /\ ~ClockIsHigh(k) /\ ClockIsHigh(k - 1) /\ k - 1 > 3
              /\ (27 - (k - 1)) \div 3 = (27 - k) \div 3
         /\ k > 3 /\ (k % 3) = 1 =>
              /\ Clocks(k - 1) = Clocks(k) /\ ClockIsHigh(k) /\ ~ClockIsHigh(k - 1)
              /\ Clocks(k) \in 0..8 /\ (Clocks(k) = 8 <=> k = 4) /\ ((k - 1) % 3) = 0
         /\ k = 3 => Clocks(k) = 8 /\ Clocks(k - 1) = 9 /\ ~ClockIsHigh(k) /\ ClockIsHigh(k - 1)
         /\ k = 2 => Clocks(k) = 9 /\ Clocks(k - 1) = 9 /\ ClockIsHigh(k) /\ ClockIsHigh(k - 1)
         /\ k = 1 => Clocks(k) = 9 /\ ClockIsHigh(k) /\ ~ClockIsHigh(k - 1)
BY DEF Clocks, ClockIsHigh

\* The operation of a byte that is due, by how many of them are to go.
LEMMA FrameOperates ==
  ASSUME BusTypeOK, Counters, Wires, Operate, pc = "ack"
  PROVE  \E k \in 1..27, b \in 0..255 :
           /\ k = Len(gpio) /\ Len(gpio') = k - 1 /\ gpio' = FrameLeft(b, k - 1)
           /\ pc' = "ack" /\ b = Sending /\ Sending' = b /\ AtFrame(k)
           /\ \/ k > 3 /\ (k % 3) = 0 /\ Head(gpio) = SDA(Level1(Bit(b, (27 - k) \div 3)))
              \/ k > 3 /\ (k % 3) = 2 /\ Head(gpio) = SCL("high")
              \/ k > 3 /\ (k % 3) = 1 /\ Head(gpio) = SCL("low")
              \/ k = 3 /\ Head(gpio) = SCL("high")
              \/ k = 2 /\ Head(gpio) = SDA("in")
              \/ k = 1 /\ Head(gpio) = SCL("low")
<1>1. PICK k \in Nat : /\ k = Len(gpio) /\ gpio # <<>> /\ gpio' = Tail(gpio) /\ Len(gpio') = k - 1
                       /\ pc' = "ack"
  BY OperationIs
<1>2. k \in 1..27 /\ gpio = FrameLeft(Sending, k) /\ AtFrame(k)
  <2>1. k > 0  BY <1>1 DEF BusTypeOK
  <2>2. /\ Len(gpio) <= 27 /\ gpio = FrameLeft(Sending, Len(gpio))
        /\ AtFrame(Len(gpio))
    BY <1>1 DEF Wires
  <2>3. k = Len(gpio)  BY <1>1
  <2>4. k <= 27  BY <2>2, <2>3, Zenon
  <2>5. k \in 1..27  BY <2>1, <2>4
  <2> QED  BY <2>2, <2>3, <2>5
<1>3. PICK b \in 0..255 : b = Sending
  BY SendingIs
<1>4. Sending' = Sending
  BY OperationIs DEF Sending
<1>5. gpio' = FrameLeft(b, k - 1) /\ Head(gpio) = Frame(b)[28 - k]
  <2>1. k \in 1..27 /\ gpio = FrameLeft(b, k) /\ gpio' = Tail(gpio)  BY <1>1, <1>2, <1>3
  <2>2. Tail(FrameLeft(b, k)) = FrameLeft(b, k - 1) /\ Head(FrameLeft(b, k)) = Frame(b)[28 - k]
    BY <2>1, FrameSteps, Zenon
  <2> QED  BY <2>1, <2>2
<1>6. k \in 1..27  BY <1>2
<1>7. \/ k > 3 /\ (k % 3) = 0 /\ Frame(b)[28 - k] = SDA(Level1(Bit(b, (27 - k) \div 3)))
      \/ k > 3 /\ (k % 3) = 2 /\ Frame(b)[28 - k] = SCL("high")
      \/ k > 3 /\ (k % 3) = 1 /\ Frame(b)[28 - k] = SCL("low")
      \/ k = 3 /\ Frame(b)[28 - k] = SCL("high")
      \/ k = 2 /\ Frame(b)[28 - k] = SDA("in")
      \/ k = 1 /\ Frame(b)[28 - k] = SCL("low")
  BY <1>6, FrameOperation, Zenon
<1>8. \/ k > 3 /\ (k % 3) = 0 /\ Head(gpio) = SDA(Level1(Bit(b, (27 - k) \div 3)))
      \/ k > 3 /\ (k % 3) = 2 /\ Head(gpio) = SCL("high")
      \/ k > 3 /\ (k % 3) = 1 /\ Head(gpio) = SCL("low")
      \/ k = 3 /\ Head(gpio) = SCL("high")
      \/ k = 2 /\ Head(gpio) = SDA("in")
      \/ k = 1 /\ Head(gpio) = SCL("low")
  BY <1>5, <1>7, Zenon
<1>9. /\ k = Len(gpio) /\ Len(gpio') = k - 1 /\ gpio' = FrameLeft(b, k - 1)
      /\ pc' = "ack" /\ b = Sending /\ Sending' = b /\ AtFrame(k)
  BY <1>1, <1>2, <1>3, <1>4, <1>5
<1> QED  BY <1>6, <1>8, <1>9, Zenon

\* A byte and its acknowledgement: the wires and the slave go on as they should.
LEMMA FrameGoesOn ==
  ASSUME BusTypeOK, Counters, Wires, Operate, pc = "ack"
  PROVE  Wires'
<1>1. PICK k \in 1..27, b \in 0..255 :
        /\ k = Len(gpio) /\ Len(gpio') = k - 1 /\ gpio' = FrameLeft(b, k - 1)
        /\ pc' = "ack" /\ b = Sending /\ Sending' = b /\ AtFrame(k)
        /\ \/ k > 3 /\ (k % 3) = 0 /\ Head(gpio) = SDA(Level1(Bit(b, (27 - k) \div 3)))
           \/ k > 3 /\ (k % 3) = 2 /\ Head(gpio) = SCL("high")
           \/ k > 3 /\ (k % 3) = 1 /\ Head(gpio) = SCL("low")
           \/ k = 3 /\ Head(gpio) = SCL("high")
           \/ k = 2 /\ Head(gpio) = SDA("in")
           \/ k = 1 /\ Head(gpio) = SCL("low")
  BY FrameOperates, Zenon
<1>2. k \in 1..27 /\ AtFrame(k)  BY <1>1
<1>3. b \in 0..255 /\ b = Sending  BY <1>1
<1>4. Sending' = Sending  BY <1>1
<1>5. gpio' = FrameLeft(b, k - 1)  BY <1>1
<1>op. \/ k > 3 /\ (k % 3) = 0 /\ Head(gpio) = SDA(Level1(Bit(b, (27 - k) \div 3)))
       \/ k > 3 /\ (k % 3) = 2 /\ Head(gpio) = SCL("high")
       \/ k > 3 /\ (k % 3) = 1 /\ Head(gpio) = SCL("low")
       \/ k = 3 /\ Head(gpio) = SCL("high")
       \/ k = 2 /\ Head(gpio) = SDA("in")
       \/ k = 1 /\ Head(gpio) = SCL("low")
  BY <1>1
<1>6. /\ scl \in {0, 1} /\ sda \in {0, 1} /\ out \in {"low", "high", "in"}
      /\ pulls \in BOOLEAN /\ state \in {"idle", "addr", "data", "deaf"} /\ n \in Nat
  BY DEF BusTypeOK
<1>7. /\ scl = IF ClockIsHigh(k) THEN 1 ELSE 0
      /\ k > 3 /\ (k % 3) # 0 => out = Level1(Bit(b, (27 - k) \div 3))
      /\ pulls => k \in {1, 2, 3} /\ Listens
      /\ k = 1 => nack = ~pulls
      /\ Listens => n = Clocks(k) \/ (k = 1 /\ n = 0)
  BY <1>2, <1>3 DEF AtFrame
<1>8. AtFrame(k - 1)'
  <2>1. CASE k > 3 /\ (k % 3) = 0
    <3>1. Head(gpio) = SDA(Level1(Bit(b, (27 - k) \div 3)))
      BY <1>op, <2>1
    <3>2. Level1(Bit(b, (27 - k) \div 3)) \in {"low", "high"}
      BY DEF Level1
    <3>3. SdaBecomes(Level1(Bit(b, (27 - k) \div 3))) /\ nack' = nack
      BY <3>1, <3>2, OperationIs
    <3>4. scl = 0 /\ ~pulls
      BY <1>2, <1>7, <2>1, ClocksAre
    <3>5. /\ scl' = 0 /\ out' = Level1(Bit(b, (27 - k) \div 3)) /\ pulls' = pulls
          /\ UNCHANGED <<state, n, shift>>
      BY <3>2, <3>3, <3>4, WireTypes
    <3>6. /\ Clocks(k - 1) = Clocks(k) /\ k - 1 > 3 /\ ~ClockIsHigh(k - 1)
          /\ (27 - (k - 1)) \div 3 = (27 - k) \div 3
      BY <1>2, <2>1, ClocksAre
    <3> QED  BY <1>2, <1>3, <1>4, <1>7, <2>1, <3>4, <3>5, <3>6 DEF AtFrame, Listens
  <2>2. CASE k > 3 /\ (k % 3) = 2
    <3>1. Head(gpio) = SCL("high")
      BY <1>op, <2>2
    <3>2. SclRises /\ nack' = nack
      BY <3>1, OperationIs
    <3>3. /\ Clocks(k - 1) = Clocks(k) + 1 /\ k - 1 > 3
          /\ ~ClockIsHigh(k) /\ ClockIsHigh(k - 1) /\ (27 - (k - 1)) \div 3 = (27 - k) \div 3
      BY <1>2, <2>2, ClocksAre
    <3>4. scl = 0 /\ ~pulls
      BY <1>7, <2>2, <3>3
    <3>5. scl' = 1 /\ UNCHANGED <<out, pulls, state>> /\ (Listens => n' = n + 1)
      BY <3>2, <3>4 DEF SclRises, Listens
    <3> QED  BY <1>2, <1>3, <1>4, <1>7, <2>2, <3>3, <3>4, <3>5 DEF AtFrame, Listens
  <2>3. CASE k > 3 /\ (k % 3) = 1
    <3>1. Head(gpio) = SCL("low")
      BY <1>op, <2>3
    <3>2. SclFalls /\ nack' = nack
      BY <3>1, OperationIs
    <3>3. /\ Clocks(k - 1) = Clocks(k) /\ ~ClockIsHigh(k - 1) /\ Clocks(k) \in 0..8
          /\ (Clocks(k) = 8 <=> k = 4) /\ ((k - 1) % 3) = 0
      BY <1>2, <2>3, ClocksAre
    <3>4. scl' = 0
      BY <3>2, WireTypes
    <3>5. CASE Listens /\ n = 8
      <4>1. k = 4  BY <1>7, <2>3, <3>3, <3>5
      <4>2. n' = n /\ (pulls' => Listens')
        BY <3>2, <3>5 DEF SclFalls, SlaveAnswers, Listens
      <4> QED  BY <1>7, <3>3, <3>4, <3>5, <4>1, <4>2 DEF AtFrame
    <3>6. CASE ~(Listens /\ n = 8)
      <4>1. pulls' = FALSE /\ UNCHANGED state /\ (Listens => n' = n)
        BY <1>7, <2>3, <3>2, <3>3, <3>6, NoAnswer
      <4> QED  BY <1>2, <1>7, <2>3, <3>3, <3>4, <4>1 DEF AtFrame, Listens
    <3> QED  BY <3>5, <3>6
  <2>4. CASE k = 3
    <3>1. Head(gpio) = SCL("high")
      BY <1>op, <2>4
    <3>2. SclRises /\ nack' = nack
      BY <3>1, OperationIs
    <3>3. Clocks(k) = 8 /\ Clocks(k - 1) = 9 /\ ~ClockIsHigh(k) /\ ClockIsHigh(k - 1)
      BY <1>2, <2>4, ClocksAre
    <3>4. scl = 0
      BY <1>7, <3>3
    <3>5. scl' = 1 /\ UNCHANGED <<out, pulls, state>> /\ (Listens => n' = n + 1)
      BY <3>2, <3>4 DEF SclRises, Listens
    <3> QED  BY <1>7, <2>4, <3>3, <3>5 DEF AtFrame, Listens
  <2>5. CASE k = 2
    <3>1. Head(gpio) = SDA("in")
      BY <1>op, <2>5
    <3>2. SdaBecomes("in") /\ nack' = (sda' = 1)
      BY <3>1, OperationIs
    <3>3. Clocks(k) = 9 /\ Clocks(k - 1) = 9 /\ ClockIsHigh(k) /\ ClockIsHigh(k - 1)
      BY <1>2, <2>5, ClocksAre
    <3>4. scl = 1
      BY <1>7, <3>3
    <3>5. /\ scl' = 1 /\ pulls' = pulls /\ sda' = (IF pulls THEN 0 ELSE 1)
          /\ sda' = sda => UNCHANGED <<state, n>>
          /\ sda' # sda => n' = 0 /\ state' = IF sda' = 0 THEN "addr" ELSE "idle"
      BY <1>6, <3>2, <3>4, WireTypes
    <3>6. pulls' => Listens'
      BY <1>7, <3>5 DEF Listens
    <3>7. nack' = ~pulls'
      BY <1>6, <3>2, <3>5
    <3> QED  BY <1>7, <2>5, <3>3, <3>5, <3>6, <3>7 DEF AtFrame, Listens
  <2>6. CASE k = 1
    <3>1. Head(gpio) = SCL("low")
      BY <1>op, <2>6
    <3>2. SclFalls /\ nack' = nack
      BY <3>1, OperationIs
    <3>3. Clocks(k) = 9 /\ ~ClockIsHigh(k - 1)
      BY <1>2, <2>6, ClocksAre
    <3>4. ~(Listens /\ n = 8)
      BY <1>7, <3>3
    <3>5. scl' = 0 /\ pulls' = FALSE /\ UNCHANGED state /\ (Listens => n' = 0)
      BY <1>7, <3>2, <3>3, <3>4, NoAnswer, WireTypes
    <3>6. Listens' <=> Listens
      BY <3>5 DEF Listens
    <3>7. ~nack' => Listens'
      BY <1>6, <1>7, <2>6, <3>2, <3>6
    <3>8. AtFrame(0)'
      BY <2>6, <3>3, <3>5, <3>6, <3>7 DEF AtFrame
    <3>9. k - 1 = 0  BY <2>6
    <3> QED  BY <3>8, <3>9
  <2>7. (k % 3) \in {0, 1, 2} /\ (k > 3 \/ k = 3 \/ k = 2 \/ k = 1)
    BY <1>2
  <2> QED  BY <2>1, <2>2, <2>3, <2>4, <2>5, <2>6, <2>7
<1>9. /\ Len(gpio') <= 27 /\ gpio' = FrameLeft(Sending, Len(gpio'))
      /\ AtFrame(Len(gpio))'
  <2>1. AtFrame(Len(gpio))' = AtFrame(k - 1)'
    BY <1>1 DEF AtFrame
  <2>2. gpio' = FrameLeft(Sending, Len(gpio'))  BY <1>1, <1>3, <1>5
  <2>3. k \in 1..27  BY <1>2
  <2>4. Len(gpio') = k - 1  BY <1>1
  <2>5. Len(gpio') <= 27  BY <2>3, <2>4
  <2> QED  BY <1>8, <2>1, <2>2, <2>5
<1> QED  BY <1>1, <1>4, <1>9 DEF Wires

\* A step of the pins keeps the wires as they should be.
LEMMA OperateStep ==
  ASSUME BusSafe, Operate
  PROVE  BusSafe'
<1>1. BusTypeOK /\ Counters /\ Wires  BY DEF BusSafe
<1>2. BusTypeOK' /\ UNCHANGED <<pc, msgs, i, num, ret, xfers>> /\ gpio # <<>>
  BY <1>1, OperationIs
<1>3. Counters'
  BY <1>1, <1>2 DEF Counters
<1>4. Wires'
  <2>1. pc # "idle"  BY <1>1, <1>2 DEF Wires
  <2>2. pc \in {"message", "ack", "deinit"}  BY <1>1, <2>1 DEF BusTypeOK
  <2> QED  BY <1>1, <2>2, BeginGoesOn, FrameGoesOn, StopGoesOn
<1> QED  BY <1>2, <1>3, <1>4 DEF BusSafe

\* A byte is sent with its clocks low, its bits to come and nobody pulling.
LEMMA FrameStarts ==
  ASSUME NEW b \in 0..255, gpio' = Frame(b), Sending' = b, pc' = "ack",
         scl' = 0, ~pulls', (Listens => n = 0)'
  PROVE  Wires'
<1>1. Len(gpio') = 27 /\ gpio' = FrameLeft(b, 27)
  <2>1. 27 \in 1..27  OBVIOUS
  <2>2. FrameLeft(b, 27) = Frame(b)  BY <2>1, FrameSteps, Zenon
  <2>3. Len(Frame(b)) = 27  BY FrameIs, Zenon
  <2> QED  BY <2>2, <2>3
<1>2. AtFrame(27)'
  BY DEF AtFrame, ClockIsHigh, Clocks
<1>3. (AtFrame(Len(gpio)))'
  BY <1>1, <1>2 DEF AtFrame
<1>4. Len(gpio') <= 27 /\ gpio' = FrameLeft(Sending', Len(gpio'))
  BY <1>1
<1> QED  BY <1>3, <1>4 DEF Wires

\* The end of a transfer begins with nobody pulling.
LEMMA StopStarts ==
  ASSUME gpio' = Stop, pc' = "deinit", ~pulls'
  PROVE  Wires'
<1>1. Len(gpio') = 4 /\ gpio' = StopLeft(4)
  <2>1. 4 \in 1..4  OBVIOUS
  <2>2. StopLeft(4) = Stop  BY <2>1, StopSteps
  <2>3. Len(Stop) = 4  BY DEF Stop
  <2> QED  BY <2>2, <2>3
<1>2. AtStop(4)'
  BY DEF AtStop
<1>3. (AtStop(Len(gpio)))'
  BY <1>1, <1>2 DEF AtStop
<1>4. Len(gpio') <= 4 /\ gpio' = StopLeft(Len(gpio'))
  BY <1>1
<1> QED  BY <1>3, <1>4 DEF Wires

\* The lists that etx_i2c_xfer works off.
LEMMA OperationTypes ==
  /\ Stop \in Seq(Operations) /\ <<>> \in Seq(Operations)
  /\ <<SCL("high"), SDA("high")>> \o Sart = Begin
  /\ \A b \in 0..255 : Bits(b) \o ReadNackAck = Frame(b) /\ Frame(b) \in Seq(Operations)
<1>1. Stop \in Seq(Operations) /\ <<>> \in Seq(Operations)
  BY DEF Stop, Operations, SDA, SCL
<1>2. \A b \in 0..255 : Frame(b) \in Seq(Operations)  BY FrameIs, Zenon
<1> QED  BY <1>1, <1>2 DEF Begin, Frame

\* A transfer begins.
LEMMA XferStep ==
  ASSUME BusSafe, NEW ms \in Transfers, Xfer(ms)
  PROVE  BusSafe'
<1>1. BusTypeOK /\ Counters /\ Wires  BY DEF BusSafe
<1>2. /\ pc = "idle" /\ gpio = <<>> /\ xfers' = xfers + 1
      /\ msgs' = ms /\ i' = 1 /\ num' = 0 /\ ret' = 0 /\ received' = <<>>
      /\ \/ pc' = "message" /\ gpio' = Begin
         \/ pc' = "deinit" /\ gpio' = Stop
      /\ UNCHANGED <<nack, scl, sda, out, pulls, state, n, shift>>
  BY OperationTypes, Zenon DEF Xfer, Goto
<1>3. AtIdle  BY <1>1, <1>2 DEF Wires
<1>4. BusTypeOK'
  <2>1. gpio' \in Seq(Operations)  BY <1>2, BeginIs, OperationTypes, Zenon
  <2>2. received' \in Seq(Nat)  BY <1>2
  <2>3. xfers' \in Nat  BY <1>1, <1>2 DEF BusTypeOK
  <2> QED  BY <1>1, <1>2, <2>1, <2>2, <2>3 DEF BusTypeOK
<1>5. Counters'
  <2>1. Len(ms) \in {1, 2}  BY PayloadIs
  <2>2. 1 <= Len(ms) + 1  BY <2>1
  <2> QED  BY <1>2, <2>2 DEF Counters
<1>6. Wires'
  <2>1. CASE pc' = "deinit"
    BY <1>2, <1>3, <2>1, StopStarts DEF AtIdle
  <2>2. CASE pc' = "message"
    <3>1. Len(gpio') = 6 /\ gpio' = BeginLeft(6)
      <4>1. 6 \in 1..6  OBVIOUS
      <4>2. BeginLeft(6) = Begin  BY <4>1, BeginSteps
      <4>3. Len(Begin) = 6  BY BeginIs
      <4> QED  BY <1>2, <2>2, <4>2, <4>3
    <3>2. AtBegin(6)'
      BY <1>2, <1>3 DEF AtBegin, AtIdle
    <3>3. (AtBegin(Len(gpio)))'
      BY <3>1, <3>2 DEF AtBegin
    <3>4. Len(gpio') <= 6 /\ gpio' = BeginLeft(Len(gpio'))
      BY <3>1
    <3> QED  BY <2>2, <3>3, <3>4 DEF Wires
  <2> QED  BY <1>2, <2>1, <2>2
<1> QED  BY <1>4, <1>5, <1>6 DEF BusSafe

\* Between two frames.
LEMMA BetweenFrames ==
  ASSUME BusSafe, gpio = <<>>
  PROVE  /\ pc = "message" => AtBegin(0)
         /\ pc = "ack" => AtFrame(0)
         /\ pc = "deinit" => AtStop(0)
<1>1. Len(gpio) = 0  OBVIOUS
<1> QED  BY <1>1 DEF BusSafe, Wires

\* The address of a message is put on the bus.
LEMMA SendAddrStep ==
  ASSUME BusSafe, SendAddr
  PROVE  BusSafe'
<1>1. BusTypeOK /\ Counters /\ Wires  BY DEF BusSafe
<1>2. /\ i <= Len(msgs) /\ gpio = <<>> /\ pc = "message" /\ pc' = "ack"
      /\ gpio' = Bits(2 * msgs[i].addr) \o ReadNackAck
      /\ UNCHANGED <<msgs, i, num, ret, nack, xfers>>
      /\ UNCHANGED <<scl, sda, out, pulls, state, n, shift, received>>
  BY DEF SendAddr, Goto, master, slave
<1>3. msgs \in Transfers /\ num = 0 /\ i \in 1..3
  BY <1>1, <1>2 DEF Counters, BusTypeOK
<1>4. i \in 1..Len(msgs)
  <2>1. Len(msgs) \in {1, 2}  BY <1>3, PayloadIs
  <2> QED  BY <1>2, <1>3, <2>1
<1>5. PICK b \in 0..255 : b = 2 * msgs[i].addr
  BY <1>3, <1>4, MessageIs, Zenon
<1>6. gpio' = Frame(b) /\ gpio' \in Seq(Operations)
  BY <1>2, <1>5, OperationTypes, Zenon
<1>7. Sending' = b
  BY <1>2, <1>3, <1>5 DEF Sending
<1>8. AtBegin(0)  BY <1>2, BetweenFrames
<1>9. Wires'
  BY <1>2, <1>6, <1>7, <1>8, FrameStarts, Zenon DEF AtBegin, Listens
<1>10. BusTypeOK'
  BY <1>1, <1>2, <1>6 DEF BusTypeOK
<1>11. Counters'
  <2>1. Len(msgs[i].buf) \in Nat  BY <1>3, <1>4, MessageIs
  <2>2. 0 <= Len(msgs[i].buf)  BY <2>1
  <2> QED  BY <1>1, <1>2, <1>3, <2>2 DEF Counters
<1> QED  BY <1>9, <1>10, <1>11 DEF BusSafe

\* The next byte of a message.
LEMMA SendByteStep ==
  ASSUME BusSafe, SendByte
  PROVE  BusSafe'
<1>1. BusTypeOK /\ Counters /\ Wires  BY DEF BusSafe
<1>2. /\ gpio = <<>> /\ pc = "ack" /\ pc' = "ack" /\ ~nack
      /\ num < Len(msgs[i].buf) /\ num' = num + 1
      /\ gpio' = Bits(msgs[i].buf[num + 1]) \o ReadNackAck
      /\ UNCHANGED <<msgs, i, ret, nack, scl, sda, out, pulls, state, n, shift, received, xfers>>
  BY DEF SendByte, Goto, slave
<1>3. msgs \in Transfers /\ num \in Nat /\ i \in 1..3 /\ i <= Len(msgs)
  BY <1>1, <1>2 DEF Counters, BusTypeOK
<1>4. i \in 1..Len(msgs)
  <2>1. Len(msgs) \in {1, 2}  BY <1>3, PayloadIs
  <2> QED  BY <1>3, <2>1
<1>5. Len(msgs[i].buf) \in Nat /\ \A k \in 1..Len(msgs[i].buf) : msgs[i].buf[k] \in 0..255
  BY <1>3, <1>4, MessageIs
<1>6. num + 1 \in 1..Len(msgs[i].buf)
  BY <1>2, <1>3, <1>5
<1>7. PICK b \in 0..255 : b = msgs[i].buf[num + 1]
  BY <1>5, <1>6, Zenon
<1>8. gpio' = Frame(b) /\ gpio' \in Seq(Operations)
  BY <1>2, <1>7, OperationTypes, Zenon
<1>9. Sending' = b
  <2>1. num' # 0  BY <1>2, <1>3
  <2> QED  BY <1>2, <1>7, <2>1 DEF Sending
<1>10. AtFrame(0)  BY <1>2, BetweenFrames
<1>11. scl = 0 /\ ~pulls /\ n = 0
  BY <1>2, <1>10 DEF AtFrame, ClockIsHigh
<1>12. Wires'
  BY <1>2, <1>8, <1>9, <1>11, FrameStarts
<1>13. BusTypeOK'
  BY <1>1, <1>2, <1>3, <1>8 DEF BusTypeOK
<1>14. Counters'
  <2>1. num' <= Len(msgs[i].buf)  BY <1>2, <1>6
  <2> QED  BY <1>1, <1>2, <1>3, <2>1 DEF Counters
<1> QED  BY <1>12, <1>13, <1>14 DEF BusSafe

\* A message is acknowledged to its end.
LEMMA MessageSentStep ==
  ASSUME BusSafe, MessageSent
  PROVE  BusSafe'
<1>1. BusTypeOK /\ Counters /\ Wires  BY DEF BusSafe
<1>2. /\ gpio = <<>> /\ pc = "ack" /\ pc' = "message" /\ ~nack
      /\ i' = i + 1 /\ num' = 0 /\ ret' = ret + 1
      /\ UNCHANGED <<gpio, msgs, nack, scl, sda, out, pulls, state, n, shift, received, xfers>>
  BY DEF MessageSent, Goto, slave
<1>3. msgs \in Transfers /\ i \in 1..3 /\ i <= Len(msgs) /\ ret = i - 1
  BY <1>1, <1>2 DEF Counters, BusTypeOK
<1>4. Len(msgs) \in {1, 2}  BY <1>3, PayloadIs
<1>5. i' \in 1..3 /\ i' <= Len(msgs) + 1 /\ ret' \in Nat /\ ret' = i' - 1
  <2>1. PICK m \in {1, 2} : m = Len(msgs)  BY <1>4
  <2>2. i \in 1..3 /\ i <= m /\ ret = i - 1  BY <1>3, <2>1
  <2>3. i + 1 \in 1..3 /\ i + 1 <= m + 1 /\ ret + 1 \in Nat /\ ret + 1 = (i + 1) - 1  BY <2>2
  <2> QED  BY <1>2, <2>1, <2>3
<1>6. BusTypeOK'
  BY <1>1, <1>2, <1>5 DEF BusTypeOK
<1>7. Counters'
  BY <1>2, <1>3, <1>5 DEF Counters
<1>8. AtFrame(0)  BY <1>2, BetweenFrames
<1>9. AtBegin(0)'
  BY <1>2, <1>8 DEF AtFrame, AtBegin, ClockIsHigh, Listens
<1>10. Wires'
  <2>1. Len(gpio') = 0  BY <1>2
  <2>2. (AtBegin(Len(gpio)))'  BY <1>9, <2>1 DEF AtBegin
  <2>3. gpio' = BeginLeft(0)
    <3>1. 1 \in 1..6  OBVIOUS
    <3> QED  BY <1>2, <3>1, BeginSteps
  <2>4. Len(gpio') <= 6 /\ gpio' = BeginLeft(Len(gpio'))
    BY <2>1, <2>3
  <2> QED  BY <1>2, <2>2, <2>4 DEF Wires
<1> QED  BY <1>6, <1>7, <1>10 DEF BusSafe

\* A refusal ends the transfer.
LEMMA AbortStep ==
  ASSUME BusSafe, Abort
  PROVE  BusSafe'
<1>1. BusTypeOK /\ Counters /\ Wires  BY DEF BusSafe
<1>2. /\ gpio = <<>> /\ pc = "ack" /\ pc' = "deinit" /\ ret' = 0 /\ gpio' = Stop
      /\ UNCHANGED <<msgs, i, num, nack, scl, sda, out, pulls, state, n, shift, received, xfers>>
  BY DEF Abort, Goto, slave
<1>3. AtFrame(0)  BY <1>2, BetweenFrames
<1>4. Wires'
  BY <1>2, <1>3, StopStarts DEF AtFrame
<1>5. gpio' \in Seq(Operations)  BY <1>2, OperationTypes, Zenon
<1>6. BusTypeOK'
  BY <1>1, <1>2, <1>5 DEF BusTypeOK
<1>7. Counters'
  BY <1>1, <1>2 DEF Counters
<1> QED  BY <1>4, <1>6, <1>7 DEF BusSafe

\* So does the last message.
LEMMA AllSentStep ==
  ASSUME BusSafe, AllSent
  PROVE  BusSafe'
<1>1. BusTypeOK /\ Counters /\ Wires  BY DEF BusSafe
<1>2. /\ gpio = <<>> /\ pc = "message" /\ pc' = "deinit" /\ gpio' = Stop
      /\ UNCHANGED <<msgs, i, num, ret, nack, xfers>>
      /\ UNCHANGED <<scl, sda, out, pulls, state, n, shift, received>>
  BY DEF AllSent, Goto, slave, master
<1>3. AtBegin(0)  BY <1>2, BetweenFrames
<1>4. Wires'
  BY <1>2, <1>3, StopStarts DEF AtBegin
<1>5. gpio' \in Seq(Operations)  BY <1>2, OperationTypes, Zenon
<1>6. BusTypeOK'
  BY <1>1, <1>2, <1>5 DEF BusTypeOK
<1>7. Counters'
  BY <1>1, <1>2 DEF Counters
<1> QED  BY <1>4, <1>6, <1>7 DEF BusSafe

\* The pins are given back.
LEMMA DeInitStep ==
  ASSUME BusSafe, DeInit
  PROVE  BusSafe'
<1>1. BusTypeOK /\ Counters /\ Wires  BY DEF BusSafe
<1>2. /\ gpio = <<>> /\ pc = "deinit" /\ pc' = "idle"
      /\ UNCHANGED <<gpio, msgs, i, num, ret, nack, scl, sda, out, pulls, state, n, shift, received,
                     xfers>>
  BY DEF DeInit, Goto, slave, master
<1>3. AtStop(0)  BY <1>2, BetweenFrames
<1>4. Wires'
  BY <1>2, <1>3 DEF AtStop, AtIdle, Wires
<1>5. BusTypeOK'
  BY <1>1, <1>2 DEF BusTypeOK
<1>6. Counters'
  BY <1>1, <1>2 DEF Counters
<1> QED  BY <1>4, <1>5, <1>6 DEF BusSafe

\* A step of something else.
LEMMA BusStutters ==
  ASSUME BusSafe, UNCHANGED vars
  PROVE  BusSafe'
<1>1. UNCHANGED <<pc, gpio, msgs, i, num, ret, nack, scl, sda, out, pulls, state, n, shift,
                  received, xfers>>
  BY DEF vars, master, slave
<1>2. BusTypeOK'  BY <1>1 DEF BusSafe, BusTypeOK
<1>3. Counters'  BY <1>1 DEF BusSafe, Counters
<1>4. Wires'
  BY <1>1 DEF BusSafe, Wires, AtIdle, AtBegin, AtFrame, AtStop, Sending, Listens
<1> QED  BY <1>2, <1>3, <1>4 DEF BusSafe

\* The bus at power-up.
LEMMA BusStarts == Init => BusSafe
<1> SUFFICES ASSUME Init PROVE BusSafe  OBVIOUS
<1>1. BusTypeOK
  <2>1. gpio = <<>> /\ received = <<>>  BY DEF Init
  <2>2. gpio \in Seq(Operations)  BY <2>1
  <2>3. received \in Seq(Nat)  BY <2>1
  <2>4. /\ pc \in {"idle", "message", "ack", "deinit"}
        /\ msgs = <<>> \/ msgs \in Transfers
        /\ out \in {"low", "high", "in"} /\ state \in {"idle", "addr", "data", "deaf"}
        /\ nack \in BOOLEAN /\ pulls \in BOOLEAN
    BY DEF Init
  <2>5. i \in 1..3 /\ num \in Nat /\ ret \in Nat /\ n \in Nat /\ shift \in Nat /\ xfers \in Nat
    BY DEF Init
  <2>6. scl \in {0, 1} /\ sda \in {0, 1}  BY DEF Init
  <2> QED  BY <2>2, <2>3, <2>4, <2>5, <2>6 DEF BusTypeOK
<1>2. Counters  BY DEF Init, Counters
<1>3. Wires  BY DEF Init, Wires, AtIdle
<1> QED  BY <1>1, <1>2, <1>3 DEF BusSafe

\* Every step keeps the wires as they should be.
LEMMA BusSteps ==
  ASSUME BusSafe, [Next]_vars
  PROVE  BusSafe'
<1>1. CASE DriveSDA \/ ReadSDA \/ SetSCL \/ ClearSCL  BY <1>1, OperateStep DEF Operate
<1>2. ASSUME NEW ms \in Transfers, Xfer(ms) PROVE BusSafe'  BY <1>2, XferStep
<1>3. CASE SendAddr  BY <1>3, SendAddrStep
<1>4. CASE SendByte  BY <1>4, SendByteStep
<1>5. CASE MessageSent  BY <1>5, MessageSentStep
<1>6. CASE Abort  BY <1>6, AbortStep
<1>7. CASE AllSent  BY <1>7, AllSentStep
<1>8. CASE DeInit  BY <1>8, DeInitStep
<1>9. CASE UNCHANGED vars  BY <1>9, BusStutters
<1> QED  BY <1>1, <1>2, <1>3, <1>4, <1>5, <1>6, <1>7, <1>8, <1>9 DEF Next

\* Wherever etx_i2c_xfer is, the wires and the slave are as its position asks: no
\* transfer, slave or acknowledgement brings them apart.
THEOREM BusIsSafe == Spec => []BusSafe
BY BusStarts, BusSteps, PTL DEF Spec

\* However a transfer ended, the bus is free for the next one: the STOP of every path
\* out of etx_i2c_xfer reaches the slave, and it lets go of SDA.
THEOREM BusReleased == Spec => []BusIsReleased
<1>1. BusSafe => BusIsReleased
  BY DEF BusSafe, Wires, AtIdle, BusIsReleased
<1> QED  BY <1>1, BusIsSafe, PTL

\* While etx_i2c_xfer only works the pins, the byte on the wire and its place stay.
LEMMA PlaceStays ==
  ASSUME UNCHANGED <<pc, msgs, i, num>>
  PROVE  Sending' = Sending /\ Behind' = Behind /\ Before' = Before
         /\ Payload(msgs)' = Payload(msgs)
BY DEF Sending, Behind, Before

\* What the slave has taken stays taken.
LEMMA HoldsStays ==
  ASSUME NEW m, UNCHANGED <<msgs, received>>, Holds(m)
  PROVE  Holds(m)'
BY DEF Holds

\* The slave takes one byte more.
LEMMA HoldsMore ==
  ASSUME NEW m \in Nat, BusTypeOK, msgs \in Transfers, Holds(m), m + 1 <= Len(Payload(msgs)),
         msgs' = msgs, received' = Append(received, Payload(msgs)[m + 1]),
         Payload(msgs)[m + 1] \in Nat
  PROVE  Holds(m + 1)'
<1>1. /\ received \in Seq(Nat) /\ Len(received) = m
      /\ \A j \in 1..m : received[j] = Payload(msgs)[j]
  BY DEF BusTypeOK, Holds
<1>2. PICK d \in Nat : d = Payload(msgs)[m + 1] /\ received' = Append(received, d)
  OBVIOUS
<1>3. /\ Len(received') = m + 1 /\ received'[m + 1] = d
      /\ \A j \in 1..m : received'[j] = received[j]
  BY <1>1, <1>2
<1>4. \A j \in 1..(m + 1) : received'[j] = Payload(msgs)[j]
  BY <1>1, <1>2, <1>3
<1> QED  BY <1>3, <1>4 DEF Holds

\* The last of the clocks of a byte: the slave may answer.
LEMMA SlaveTakes ==
  ASSUME BusTypeOK, Counters, pc = "ack", ~Mistakable(msgs), UNCHANGED <<pc, msgs, i, num>>,
         SclFalls, Holds(Before), Listens, n = 8, shift = Sending,
         IF Behind = 0 THEN state = "addr" ELSE Expects(Before, Payload(msgs)[Before] % 2 = 1)
  PROVE  /\ (pulls => state = "data")'
         /\ Holds(IF pulls THEN Behind ELSE Before)'
<1>1. PICK B \in 0..Len(Payload(msgs)), b \in 0..255 :
        /\ B = Behind /\ b = Sending /\ (B > 0 => Payload(msgs)[B] = b)
  BY SendingIs
<1>2. msgs \in Transfers /\ B \in Nat /\ Len(Payload(msgs)) \in Nat
  <2>1. msgs \in Transfers  BY DEF Counters
  <2>2. Len(Payload(msgs)) \in Nat  BY <2>1, PayloadIs
  <2> QED  BY <2>1, <2>2
<1>3. PICK m \in Nat : m = Before /\ m = IF B = 0 THEN 0 ELSE B - 1
  BY <1>1, <1>2 DEF Before
<1>4. Behind' = B /\ Before' = m /\ Payload(msgs)' = Payload(msgs)
  BY <1>1, <1>3, PlaceStays
<1>5. PICK accepts \in BOOLEAN : SlaveAnswers(accepts)
  BY DEF SclFalls, Listens
<1>6. CASE ~accepts
  <2>1. ~pulls' /\ received' = received
    BY <1>5, <1>6 DEF SlaveAnswers
  <2>2. Holds(m)  BY <1>3
  <2>3. Holds(m)'  BY <2>1, <2>2, HoldsStays
  <2> QED  BY <1>4, <2>1, <2>3
<1>7. CASE accepts
  <2>1. pulls' /\ state' = "data" /\ (state = "data" \/ b = 2 * SlaveAddr)
        /\ received' = IF state = "data" THEN Append(received, b) ELSE received
    BY <1>1, <1>5, <1>7 DEF SlaveAnswers
  <2>2. CASE B = 0
    <3>1. state = "addr"  BY <1>1, <2>2
    <3>2. received' = received  BY <2>1, <3>1
    <3>3. Holds(0)  BY <1>3, <2>2
    <3>4. Holds(0)'  BY <3>2, <3>3, HoldsStays
    <3> QED  BY <1>4, <2>1, <2>2, <3>4
  <2>3. CASE B # 0
    <3>1. m = B - 1 /\ m + 1 = B /\ B > 0  BY <1>2, <1>3, <2>3
    <3>2. Expects(m, Payload(msgs)[m] % 2 = 1)  BY <1>1, <1>3, <2>3
    <3>3. state = "data"
      <4> SUFFICES ASSUME state # "data" PROVE FALSE  OBVIOUS
      <4>1. m > 0 /\ Payload(msgs)[m] % 2 = 1  BY <3>2 DEF Expects
      <4>2. B \in 2..Len(Payload(msgs))  BY <1>2, <3>1, <4>1
      <4>3. Payload(msgs)[B] = 2 * SlaveAddr  BY <1>1, <2>1, <3>1
      <4>4. Payload(msgs)[B - 1] % 2 = 1  BY <3>1, <4>1
      <4> QED  BY <4>2, <4>3, <4>4 DEF Mistakable
    <3>4. received' = Append(received, Payload(msgs)[m + 1]) /\ Payload(msgs)[m + 1] \in Nat
      <4>1. Payload(msgs)[m + 1] = b  BY <1>1, <3>1
      <4>2. b \in Nat  BY <1>1
      <4> QED  BY <2>1, <3>3, <4>1, <4>2
    <3>5. m + 1 <= Len(Payload(msgs))  BY <1>1, <1>2, <3>1
    <3>6. Holds(m)  BY <1>3
    <3>7. Holds(m + 1)'
      BY <1>2, <3>4, <3>5, <3>6, HoldsMore
    <3> QED  BY <1>4, <2>1, <3>1, <3>7
  <2> QED  BY <2>2, <2>3
<1> QED  BY <1>6, <1>7

\* A byte and its acknowledgement: the slave takes the byte, or nothing.
LEMMA FrameDelivers ==
  ASSUME BusSafe, Operate, pc = "ack", ~Mistakable(msgs), InFrame(Len(gpio))
  PROVE  InFrame(Len(gpio))'
<1>0. BusTypeOK /\ Counters /\ Wires  BY DEF BusSafe
<1>1. PICK k \in 1..27, b \in 0..255 :
        /\ k = Len(gpio) /\ Len(gpio') = k - 1
        /\ pc' = "ack" /\ b = Sending /\ Sending' = b /\ AtFrame(k)
        /\ \/ k > 3 /\ (k % 3) = 0 /\ Head(gpio) = SDA(Level1(Bit(b, (27 - k) \div 3)))
           \/ k > 3 /\ (k % 3) = 2 /\ Head(gpio) = SCL("high")
           \/ k > 3 /\ (k % 3) = 1 /\ Head(gpio) = SCL("low")
           \/ k = 3 /\ Head(gpio) = SCL("high")
           \/ k = 2 /\ Head(gpio) = SDA("in")
           \/ k = 1 /\ Head(gpio) = SCL("low")
  BY <1>0, FrameOperates, Zenon
<1>2. UNCHANGED <<pc, msgs, i, num>>
  BY <1>0, OperationIs
<1>3. PICK B \in Nat, m \in Nat, p \in Seq(0..255) :
        /\ B = Behind /\ m = Before /\ p = Payload(msgs)
        /\ Behind' = B /\ Before' = m /\ Payload(msgs)' = p
        /\ B = 0 => (b % 2) = 0
  <2>1. Behind \in 0..Len(Payload(msgs)) /\ Before \in Nat /\ (Behind = 0 => (b % 2) = 0)
    BY <1>0, <1>1, SendingIs
  <2>2. msgs \in Transfers  BY <1>0 DEF Counters
  <2>3. Payload(msgs) \in Seq(0..255) /\ Len(Payload(msgs)) \in Nat
    BY <2>2, PayloadIs, LenProperties
  <2> QED  BY <1>2, <2>1, <2>3, PlaceStays
<1>4. /\ scl \in {0, 1} /\ sda \in {0, 1} /\ out \in {"low", "high", "in"}
      /\ pulls \in BOOLEAN /\ state \in {"idle", "addr", "data", "deaf"}
      /\ n \in Nat /\ shift \in Nat
  BY <1>0 DEF BusTypeOK
<1>5. /\ scl = IF ClockIsHigh(k) THEN 1 ELSE 0
      /\ k > 3 /\ (k % 3) # 0 => out = Level1(Bit(b, (27 - k) \div 3))
      /\ pulls => k \in {1, 2, 3} /\ Listens
      /\ k = 1 => nack = ~pulls
      /\ Listens => n = Clocks(k) \/ (k = 1 /\ n = 0)
  BY <1>1 DEF AtFrame
<1>6. InFrame(k)
  BY <1>1 DEF InFrame
<1>7. /\ k > 3 => /\ Holds(m) /\ Listens /\ shift = b \div 2 ^ (8 - n)
                  /\ IF B = 0 THEN state = "addr" ELSE Expects(m, p[m] % 2 = 1)
      /\ k \in {1, 2, 3} => Holds(IF pulls THEN B ELSE m)
      /\ k \in {2, 3} => (pulls => state = "data") /\ ((b % 2) = 0 => out = "low" /\ sda = 0)
      /\ k = 1 => (pulls => Expects(B, b % 2 = 1)) /\ (Listens /\ n = 0 => shift = 0)
  BY <1>1, <1>3, <1>6 DEF InFrame
<1>op. /\ k \in 1..27 /\ Sending' = b
       /\ \/ k > 3 /\ (k % 3) = 0 /\ Head(gpio) = SDA(Level1(Bit(b, (27 - k) \div 3)))
          \/ k > 3 /\ (k % 3) = 2 /\ Head(gpio) = SCL("high")
          \/ k > 3 /\ (k % 3) = 1 /\ Head(gpio) = SCL("low")
          \/ k = 3 /\ Head(gpio) = SCL("high")
          \/ k = 2 /\ Head(gpio) = SDA("in")
          \/ k = 1 /\ Head(gpio) = SCL("low")
  BY <1>1, Zenon
<1>at. /\ Behind' = B /\ Before' = m /\ Payload(msgs)' = p /\ Sending' = b
  BY <1>1, <1>3
<1>8. SUFFICES InFrame(k - 1)'
  BY <1>1 DEF InFrame
<1>9. CASE k > 3 /\ (k % 3) = 0
  <2>1. Level1(Bit(b, (27 - k) \div 3)) \in {"low", "high"}
    BY DEF Level1
  <2>2. SdaBecomes(Level1(Bit(b, (27 - k) \div 3)))
    <3>1. Head(gpio) = SDA(Level1(Bit(b, (27 - k) \div 3)))  BY <1>op, <1>9
    <3> QED  BY <2>1, <1>0, <3>1, OperationIs
  <2>3. scl = 0  BY <1>5, <1>9, ClocksAre
  <2>4. UNCHANGED <<received, state, n, shift>>
    BY <2>1, <2>2, <2>3, <1>0, WireTypes
  <2>5. k - 1 > 3  BY <1>9, ClocksAre
  <2>6. Holds(m)'  BY <1>2, <1>7, <1>9, <2>4, HoldsStays
  <2> QED  BY <1>at, <1>7, <1>9, <2>4, <2>5, <2>6 DEF InFrame, Listens, Expects
<1>10. CASE k > 3 /\ (k % 3) = 2
  <2>1. SclRises
    <3>1. Head(gpio) = SCL("high")  BY <1>op, <1>10
    <3> QED  BY <1>0, <3>1, OperationIs
  <2>2. scl = 0 /\ ~pulls /\ k - 1 > 3
    <3>1. ~ClockIsHigh(k) /\ k - 1 > 3  BY <1>10, ClocksAre
    <3> QED  BY <1>4, <1>5, <1>10, <3>1
  <2>3. n \in 0..7 /\ n = (27 - k) \div 3
    <3>1. Clocks(k) = (27 - k) \div 3 /\ Clocks(k) \in 0..7  BY <1>10, ClocksAre
    <3>2. n = Clocks(k)  BY <1>5, <1>7, <1>10
    <3> QED  BY <3>1, <3>2
  <2>4. out = Level1(Bit(b, n))  BY <1>5, <1>10, <2>3
  <2>5. sda' = Bit(b, n)
    <3>1. Bit(b, n) \in {0, 1}  BY <2>3, BitIs
    <3>2. (out = "low" => sda' = 0) /\ (out # "low" => sda' = 1)
      BY <2>1, <2>2, <1>0, WireTypes
    <3> QED  BY <2>4, <3>1, <3>2 DEF Level1
  <2>6. n' = n + 1 /\ shift' = 2 * shift + sda'
    BY <1>7, <1>10, <2>1, <2>2, <2>3 DEF SclRises, Listens
  <2>7. UNCHANGED <<state, received>>  BY <2>1, <1>0, WireTypes
  <2>8. shift' = b \div 2 ^ (8 - n')
    <3>1. b \div 2 ^ (8 - (n + 1)) = 2 * (b \div 2 ^ (8 - n)) + Bit(b, n)
      BY <2>3, BitFollows
    <3>2. shift = b \div 2 ^ (8 - n)  BY <1>7, <1>10
    <3> QED  BY <2>5, <2>6, <3>1, <3>2
  <2>9. Holds(m)'  BY <1>2, <1>7, <1>10, <2>7, HoldsStays
  <2> QED  BY <1>at, <1>7, <1>10, <2>2, <2>7, <2>8, <2>9 DEF InFrame, Listens, Expects
<1>11. CASE k > 3 /\ (k % 3) = 1 /\ k # 4
  <2>1. SclFalls
    <3>1. Head(gpio) = SCL("low")  BY <1>op, <1>11
    <3> QED  BY <1>0, <3>1, OperationIs
  <2>2. n # 8 /\ n # 9
    <3>1. Clocks(k) \in 0..8 /\ Clocks(k) # 8  BY <1>11, ClocksAre
    <3>2. n = Clocks(k)  BY <1>5, <1>7, <1>11
    <3> QED  BY <3>1, <3>2
  <2>3. UNCHANGED <<state, received, n, shift>>  BY <2>1, <2>2, NoAnswer
  <2>4. k - 1 > 3  BY <1>11
  <2>5. Holds(m)'  BY <1>2, <1>7, <1>11, <2>3, HoldsStays
  <2> QED  BY <1>at, <1>7, <1>11, <2>3, <2>4, <2>5 DEF InFrame, Listens, Expects
<1>12. CASE k = 4
  <2>1. SclFalls
    <3>1. Head(gpio) = SCL("low")  BY <1>op, <1>12
    <3> QED  BY <1>0, <3>1, OperationIs
  <2>2. n = 8
    <3>1. Clocks(4) = 8  BY DEF Clocks
    <3> QED  BY <1>5, <1>7, <1>12, <3>1
  <2>3. shift = b
    <3>1. 2 ^ (8 - 8) = 1  OBVIOUS
    <3> QED  BY <1>7, <1>12, <2>2, <3>1
  <2>4. /\ (pulls => state = "data")'
        /\ Holds(IF pulls THEN Behind ELSE Before)'
    BY <1>0, <1>1, <1>2, <1>3, <1>7, <1>12, <2>1, <2>2, <2>3, SlaveTakes
  <2>5. (b % 2) = 0 => out' = "low" /\ sda' = 0
    <3> SUFFICES ASSUME (b % 2) = 0 PROVE out' = "low" /\ sda' = 0  OBVIOUS
    <3>1. Bit(b, 7) = 0  BY DEF Bit
    <3>2. (4 % 3) # 0 /\ (27 - 4) \div 3 = 7  OBVIOUS
    <3>3. out = "low"  BY <1>5, <1>12, <3>1, <3>2 DEF Level1
    <3> QED  BY <2>1, <3>3, <1>0, WireTypes
  <2>6. k - 1 = 3  BY <1>12
  <2>7. InFrame(3)'  BY <1>at, <2>4, <2>5 DEF InFrame
  <2> QED  BY <2>6, <2>7
<1>13. CASE k = 3
  <2>1. SclRises
    <3>1. Head(gpio) = SCL("high")  BY <1>op, <1>13
    <3> QED  BY <1>0, <3>1, OperationIs
  <2>2. UNCHANGED <<out, pulls, state, received>> /\ (out = "low" => sda' = 0)
    BY <2>1, <1>0, WireTypes
  <2>3. Holds(IF pulls THEN B ELSE m)'
    <3>1. CASE pulls
      <4>1. Holds(B)'  BY <1>2, <1>7, <1>13, <2>2, <3>1, HoldsStays
      <4> QED  BY <2>2, <3>1, <4>1
    <3>2. CASE ~pulls
      <4>1. Holds(m)'  BY <1>2, <1>7, <1>13, <2>2, <3>2, HoldsStays
      <4> QED  BY <2>2, <3>2, <4>1
    <3> QED  BY <3>1, <3>2
  <2>4. InFrame(2)'
    BY <1>at, <1>7, <1>13, <2>2, <2>3 DEF InFrame
  <2>5. k - 1 = 2  BY <1>13
  <2> QED  BY <2>4, <2>5
<1>14. CASE k = 2
  <2>1. SdaBecomes("in")
    <3>1. Head(gpio) = SDA("in")  BY <1>op, <1>14
    <3> QED  BY <1>0, <3>1, OperationIs
  <2>2. scl = 1  BY <1>5, <1>14, ClocksAre
  <2>3. /\ UNCHANGED <<pulls, received>> /\ sda' = (IF pulls THEN 0 ELSE 1)
        /\ sda' = sda => UNCHANGED <<state, n, shift>>
        /\ sda' # sda => n' = 0 /\ shift' = 0 /\ state' = IF sda' = 0 THEN "addr" ELSE "idle"
    BY <1>4, <2>1, <2>2, <1>0, WireTypes
  <2>4. Holds(IF pulls THEN B ELSE m)'
    <3>1. CASE pulls
      <4>1. Holds(B)'  BY <1>2, <1>7, <1>14, <2>3, <3>1, HoldsStays
      <4> QED  BY <2>3, <3>1, <4>1
    <3>2. CASE ~pulls
      <4>1. Holds(m)'  BY <1>2, <1>7, <1>14, <2>3, <3>2, HoldsStays
      <4> QED  BY <2>3, <3>2, <4>1
    <3> QED  BY <3>1, <3>2
  <2>5. ASSUME pulls' PROVE Expects(B, b % 2 = 1)'
    <3>1. pulls /\ sda' = 0 /\ state = "data"  BY <1>7, <1>14, <2>3, <2>5
    <3>2. CASE sda = 0
      BY <2>3, <3>1, <3>2 DEF Expects
    <3>3. CASE sda # 0
      <4>1. (b % 2) # 0  BY <1>7, <1>14, <3>3
      <4>2. b % 2 = 1  BY <4>1
      <4>3. B > 0  BY <1>3, <4>1
      <4>4. state' = "addr"  BY <2>3, <3>1, <3>3
      <4> QED  BY <4>2, <4>3, <4>4 DEF Expects
    <3> QED  BY <3>2, <3>3
  <2>6. ASSUME Listens', n' = 0 PROVE shift' = 0
    <3>1. CASE sda' # sda  BY <2>3, <3>1
    <3>2. CASE sda' = sda
      <4>1. Listens /\ n = 0  BY <2>3, <2>6, <3>2 DEF Listens
      <4>2. n = 9  BY <1>5, <1>14, <4>1, ClocksAre
      <4> QED  BY <4>1, <4>2
    <3> QED  BY <3>1, <3>2
  <2>7. InFrame(1)'
    BY <1>at, <2>4, <2>5, <2>6 DEF InFrame
  <2>8. k - 1 = 1  BY <1>14
  <2> QED  BY <2>7, <2>8
<1>15. CASE k = 1
  <2>1. SclFalls /\ nack' = nack
    <3>1. Head(gpio) = SCL("low")  BY <1>op, <1>15
    <3> QED  BY <1>0, <3>1, OperationIs
  <2>2. Clocks(k) = 9  BY <1>15, ClocksAre
  <2>3. ~(Listens /\ n = 8)  BY <1>5, <2>2
  <2>4. UNCHANGED <<state, received>> /\ (n = 9 => shift' = 0) /\ (n # 9 => shift' = shift)
    BY <2>1, <2>3, NoAnswer
  <2>5. nack' = ~pulls  BY <1>5, <1>15, <2>1
  <2>6. Holds(IF nack THEN m ELSE B)'
    <3>1. CASE pulls
      <4>1. Holds(B)'  BY <1>2, <1>7, <1>15, <2>4, <3>1, HoldsStays
      <4> QED  BY <2>5, <3>1, <4>1
    <3>2. CASE ~pulls
      <4>1. Holds(m)'  BY <1>2, <1>7, <1>15, <2>4, <3>2, HoldsStays
      <4> QED  BY <2>5, <3>2, <4>1
    <3> QED  BY <3>1, <3>2
  <2>7. ASSUME ~nack' PROVE shift' = 0 /\ Expects(B, b % 2 = 1)'
    <3>1. pulls /\ Listens  BY <1>4, <1>5, <2>5, <2>7
    <3>2. Expects(B, b % 2 = 1)  BY <1>7, <1>15, <3>1
    <3>3. n = 9 \/ n = 0  BY <1>5, <2>2, <3>1
    <3>4. shift' = 0  BY <1>7, <1>15, <2>4, <3>1, <3>3
    <3> QED  BY <2>4, <3>2, <3>4 DEF Expects
  <2>8. InFrame(0)'
    BY <1>at, <2>6, <2>7 DEF InFrame
  <2>9. k - 1 = 0  BY <1>15
  <2> QED  BY <2>8, <2>9
<1>16. (k % 3) \in {0, 1, 2} /\ (k > 3 \/ k = 3 \/ k = 2 \/ k = 1)
  OBVIOUS
<1> QED  BY <1>9, <1>10, <1>11, <1>12, <1>13, <1>14, <1>15, <1>16

\* The begin of a transfer: the slave takes nothing.
LEMMA BeginDelivers ==
  ASSUME BusSafe, Operate, pc = "message", InMessage
  PROVE  InMessage'
<1>0. BusTypeOK /\ Counters /\ Wires  BY DEF BusSafe
<1>1. PICK k \in 1..6 : /\ k = Len(gpio) /\ Len(gpio') = k - 1 /\ gpio' = BeginLeft(k - 1)
                        /\ pc' = "message" /\ AtBegin(k) /\ Head(gpio) = Begin[7 - k]
  BY <1>0, BeginOperates
<1>2. UNCHANGED <<pc, msgs, i, num>> /\ gpio # <<>>
  BY <1>0, OperationIs
<1>3. /\ scl \in {0, 1} /\ sda \in {0, 1}
      /\ pulls \in BOOLEAN /\ state \in {"idle", "addr", "data", "deaf"} /\ n \in Nat
  BY <1>0 DEF BusTypeOK
<1>4. k \in 1..6 /\ AtBegin(k) /\ Head(gpio) = Begin[7 - k]  BY <1>1
<1>5. i = 1 /\ Holds(Behind) /\ state # "data" /\ (Listens => shift = 0)
  BY <1>2 DEF InMessage
<1>6. Behind' = Behind  BY <1>2, PlaceStays
<1>7. SUFFICES received' = received /\ state' # "data" /\ (Listens' => shift' = 0)
  <2>1. PICK m : m = Behind  OBVIOUS
  <2>2. Holds(m)  BY <1>5, <2>1
  <2>3. Holds(m)'  BY <1>2, <1>7, <2>2, HoldsStays
  <2>4. Holds(Behind)'  BY <1>6, <2>1, <2>3
  <2>5. i' = 1  BY <1>2, <1>5
  <2> QED  BY <1>7, <2>4, <2>5 DEF InMessage
<1>8. CASE k \in {6, 3}
  <2>1. Head(gpio) = SCL("high")
    <3>1. 7 - k \in {1, 4}  BY <1>8
    <3> QED  BY <1>4, <3>1, BeginIs
  <2>2. SclRises  BY <1>0, <2>1, OperationIs
  <2>3. UNCHANGED <<state, received>> /\ state = "idle"
    BY <1>0, <1>4, <1>8, <2>2, WireTypes DEF AtBegin
  <2> QED  BY <2>3 DEF Listens
<1>9. CASE k \in {5, 4}
  <2>1. Head(gpio) = SDA("high")
    <3>1. 7 - k \in {2, 3}  BY <1>9
    <3> QED  BY <1>4, <3>1, BeginIs
  <2>2. SdaBecomes("high")  BY <1>0, <2>1, OperationIs
  <2>3. ~pulls /\ sda = 1 /\ state = "idle"
    BY <1>4, <1>9 DEF AtBegin
  <2>4. sda' = 1 /\ UNCHANGED <<state, received>>
    BY <1>0, <2>2, <2>3, WireTypes
  <2> QED  BY <2>3, <2>4 DEF Listens
<1>10. CASE k = 2
  <2>1. Head(gpio) = SDA("low")
    <3>1. 7 - k = 5  BY <1>10
    <3> QED  BY <1>4, <3>1, BeginIs
  <2>2. SdaBecomes("low")  BY <1>0, <2>1, OperationIs
  <2>3. sda = 1 /\ scl = 1
    BY <1>4, <1>10 DEF AtBegin
  <2> QED  BY <1>0, <2>2, <2>3, WireTypes
<1>11. CASE k = 1
  <2>1. Head(gpio) = SCL("low")
    <3>1. 7 - k = 6  BY <1>11
    <3> QED  BY <1>4, <3>1, BeginIs
  <2>2. SclFalls  BY <1>0, <2>1, OperationIs
  <2>3. n = 0  BY <1>4, <1>11 DEF AtBegin
  <2>4. UNCHANGED <<state, received, shift>>
    BY <2>2, <2>3, NoAnswer
  <2> QED  BY <1>5, <2>4 DEF Listens
<1> QED  BY <1>4, <1>8, <1>9, <1>10, <1>11

\* A step of the pins, in any phase of a transfer.
LEMMA OperateDelivers ==
  ASSUME BusSound, Operate
  PROVE  Delivery'
<1>1. BusSafe  BY DEF BusSound, BusSafe
<1>2. BusTypeOK /\ Counters /\ Wires  BY DEF BusSound
<1>3. UNCHANGED <<pc, msgs, i, num, ret>> /\ gpio # <<>>
  BY <1>2, OperationIs
<1> SUFFICES ASSUME msgs # <<>>, ~Mistakable(msgs)
             PROVE  /\ pc = "message" => InMessage'
                    /\ pc = "ack" => InFrame(Len(gpio))'
                    /\ pc \in {"deinit", "idle"} => AtEnd'
  BY <1>3 DEF Delivery
<1>4. /\ pc = "message" => InMessage
      /\ pc = "ack" => InFrame(Len(gpio))
      /\ pc \in {"deinit", "idle"} => AtEnd
  BY DEF BusSound, Delivery
<1>5. ASSUME pc = "message" PROVE InMessage'
  BY <1>1, <1>4, <1>5, BeginDelivers
<1>6. ASSUME pc = "ack" PROVE InFrame(Len(gpio))'
  BY <1>1, <1>4, <1>6, FrameDelivers
<1>7. ASSUME pc \in {"deinit", "idle"} PROVE AtEnd'
  <2>1. pc = "deinit"  BY <1>2, <1>3, <1>7 DEF Wires
  <2>2. received' = received  BY <1>2, <2>1, StopGoesOn
  <2> QED  BY <1>3, <1>4, <1>7, <2>2 DEF AtEnd, Holds
<1> QED  BY <1>5, <1>6, <1>7

\* A transfer begins with nothing taken.
LEMMA XferDelivers ==
  ASSUME BusSound, NEW ms \in Transfers, Xfer(ms)
  PROVE  Delivery'
<1>1. BusTypeOK /\ Wires  BY DEF BusSound
<1>2. /\ pc = "idle" /\ msgs' = ms /\ i' = 1 /\ num' = 0 /\ ret' = 0 /\ received' = <<>>
      /\ pc' = "message" \/ pc' = "deinit"
      /\ UNCHANGED <<state, shift>>
  BY DEF Xfer, Goto
<1>3. state = "idle"  BY <1>1, <1>2 DEF Wires, AtIdle
<1>4. Holds(0)'
  <2>1. Len(Payload(ms)) \in Nat  BY PayloadIs
  <2>2. Payload(msgs)' = Payload(ms)  BY <1>2
  <2>3. 0 <= Len(Payload(ms)) /\ Len(<<>>) = 0  BY <2>1
  <2> QED  BY <1>2, <2>2, <2>3 DEF Holds
<1>5. InMessage'
  <2>1. Behind' = 0  BY <1>2 DEF Behind
  <2>2. Holds(Behind)'  BY <1>4, <2>1
  <2> QED  BY <1>2, <1>3, <2>2 DEF InMessage, Listens
<1>6. AtEnd'
  <2>1. Len(received') = 0  BY <1>2
  <2>2. Holds(Len(received))'  BY <1>4, <2>1
  <2> QED  BY <1>2, <2>2 DEF AtEnd
<1> QED  BY <1>2, <1>5, <1>6 DEF Delivery

\* A byte is about to be sent, and none of its bits is.
LEMMA FrameIsNext ==
  ASSUME NEW b \in 0..255, gpio' = Frame(b), Sending' = b, n' = 0, shift' = 0, Listens',
         Holds(Before)',
         (IF Behind = 0 THEN state = "addr" ELSE Expects(Before, Payload(msgs)[Before] % 2 = 1))'
  PROVE  InFrame(Len(gpio))'
<1>1. Len(gpio') = 27  BY FrameIs, Zenon
<1>2. shift' = b \div 2 ^ (8 - n')  OBVIOUS
<1>3. InFrame(27)'
  BY <1>2 DEF InFrame
<1> QED  BY <1>1, <1>3 DEF InFrame

\* Where etx_i2c_xfer is in its argument when a byte is on the wire.
LEMMA PlaceIs ==
  ASSUME BusTypeOK, Counters, pc = "ack"
  PROVE  /\ msgs \in Transfers /\ Len(msgs) \in {1, 2} /\ i \in {1, 2} /\ num \in Nat
         /\ i \in 1..Len(msgs) /\ (i = 2 => Len(msgs) = 2)
         /\ Behind \in Nat /\ Len(Payload(msgs)) \in Nat /\ Behind <= Len(Payload(msgs))
         /\ Sending \in Nat /\ (Behind > 0 => Payload(msgs)[Behind] = Sending)
         /\ Before = IF Behind = 0 THEN 0 ELSE Behind - 1
         /\ Len(msgs[1].buf) \in Nat /\ (i = 2 => Len(msgs[2].buf) \in Nat)
<1>1. msgs \in Transfers /\ num \in Nat /\ i \in 1..3 /\ i <= Len(msgs)
  BY DEF Counters, BusTypeOK
<1>2. PICK l \in {1, 2} : l = Len(msgs)  BY <1>1, PayloadIs
<1>3. i \in 1..3 /\ i <= l  BY <1>1, <1>2
<1>4. i \in {1, 2} /\ i \in 1..l /\ (i = 2 => l = 2)  BY <1>3
<1>5. 1 \in 1..Len(msgs) /\ (i = 2 => 2 \in 1..Len(msgs))  BY <1>2, <1>4
<1>6. Len(msgs[1].buf) \in Nat /\ (i = 2 => Len(msgs[2].buf) \in Nat)
  BY <1>1, <1>5, MessageIs
<1>7. PICK p \in Nat : p = Len(Payload(msgs))
  <2>1. Payload(msgs) \in Seq(0..255)  BY <1>1, PayloadIs
  <2> QED  BY <2>1, LenProperties
<1>8. Behind \in 0..p /\ Sending \in 0..255 /\ (Behind > 0 => Payload(msgs)[Behind] = Sending)
  BY <1>7, SendingIs
<1>9. Behind \in Nat /\ Behind <= p /\ Sending \in Nat
  BY <1>8
<1> QED  BY <1>1, <1>2, <1>4, <1>6, <1>7, <1>8, <1>9 DEF Before

\* An address: the first reaches a slave that waits for one, the second one that has
\* taken the first message.
LEMMA SendAddrDelivers ==
  ASSUME BusSound, SendAddr
  PROVE  Delivery'
<1>1. BusSafe  BY DEF BusSound, BusSafe
<1>2. BusTypeOK /\ Counters /\ Wires  BY DEF BusSound
<1>3. /\ i <= Len(msgs) /\ gpio = <<>> /\ pc = "message" /\ pc' = "ack"
      /\ gpio' = Bits(2 * msgs[i].addr) \o ReadNackAck
      /\ UNCHANGED <<msgs, i, num, ret, nack, scl, sda, out, pulls, state, n, shift, received>>
  BY DEF SendAddr, Goto, master, slave
<1>4. msgs \in Transfers /\ num = 0 /\ i \in {1, 2} /\ Len(msgs) \in {1, 2}
  <2>1. msgs \in Transfers /\ num = 0 /\ i \in 1..3  BY <1>2, <1>3 DEF Counters, BusTypeOK
  <2>2. Len(msgs) \in {1, 2}  BY <2>1, PayloadIs
  <2> QED  BY <1>3, <2>1, <2>2
<1>5. PICK b \in 0..255 : b = 2 * msgs[i].addr
  <2>1. i \in 1..Len(msgs)  BY <1>3, <1>4
  <2> QED  BY <1>4, <2>1, MessageIs, Zenon
<1>6. gpio' = Frame(b) /\ Sending' = b
  BY <1>3, <1>4, <1>5, OperationTypes, Zenon DEF Sending
<1>7. AtBegin(0)  BY <1>1, <1>3, BetweenFrames
<1> SUFFICES ASSUME msgs # <<>>, ~Mistakable(msgs) PROVE InFrame(Len(gpio))'
  BY <1>3 DEF Delivery
<1>8. InMessage
  BY <1>3 DEF BusSound, Delivery
<1>9. n = 0 /\ shift = 0 /\ Listens
  BY <1>7, <1>8 DEF AtBegin, InMessage
<1>10. n' = 0 /\ shift' = 0 /\ Listens'
  BY <1>3, <1>9 DEF Listens
<1>11. CASE i = 1
  <2>1. Behind = 0 /\ Behind' = 0 /\ Before' = 0  BY <1>3, <1>4, <1>11 DEF Behind, Before
  <2>2. Holds(0)  BY <1>8, <2>1 DEF InMessage
  <2>3. Holds(0)'  BY <1>3, <2>2, HoldsStays
  <2>4. Holds(Before)'  BY <2>1, <2>3
  <2>5. state' = "addr"  BY <1>3, <1>8, <1>9, <1>11 DEF InMessage, Listens
  <2> QED  BY <1>6, <1>10, <2>1, <2>4, <2>5, FrameIsNext
<1>12. CASE i = 2
  <2>1. PICK m \in Nat : m = Len(msgs[1].buf)
    <3>1. 1 \in 1..Len(msgs)  BY <1>4
    <3> QED  BY <1>4, <3>1, MessageIs
  <2>2. Behind = m
    <3>1. Behind = m + 0  BY <1>3, <1>12, <2>1 DEF Behind
    <3> QED  BY <3>1
  <2>3. Behind' = m + 1
    <3>1. Behind' = m + (1 + 0)  BY <1>3, <1>4, <1>12, <2>1 DEF Behind
    <3> QED  BY <3>1
  <2>4. Before' = m /\ Behind' # 0  BY <2>3 DEF Before
  <2>5. Holds(m) /\ Expects(m, Payload(msgs)[m] % 2 = 1)
    BY <1>8, <1>12, <2>2 DEF InMessage
  <2>6. Holds(m)'  BY <1>3, <2>5, HoldsStays
  <2>7. Holds(Before)'  BY <2>4, <2>6
  <2>8. Expects(m, Payload(msgs)[m] % 2 = 1)'  BY <1>3, <2>5 DEF Expects
  <2> QED  BY <1>6, <1>10, <2>4, <2>7, <2>8, FrameIsNext
<1> QED  BY <1>4, <1>11, <1>12

\* The next byte: the one before was acknowledged and taken.
LEMMA SendByteDelivers ==
  ASSUME BusSound, SendByte
  PROVE  Delivery'
<1>1. BusSafe  BY DEF BusSound, BusSafe
<1>2. BusTypeOK /\ Counters /\ Wires  BY DEF BusSound
<1>3. /\ gpio = <<>> /\ pc = "ack" /\ pc' = "ack" /\ ~nack
      /\ num < Len(msgs[i].buf) /\ num' = num + 1
      /\ gpio' = Bits(msgs[i].buf[num + 1]) \o ReadNackAck
      /\ UNCHANGED <<msgs, i, ret, nack, scl, sda, out, pulls, state, n, shift, received>>
  BY DEF SendByte, Goto, slave
<1>4. msgs \in Transfers /\ num \in Nat /\ i \in {1, 2} /\ i \in 1..Len(msgs)
  BY <1>2, <1>3, PlaceIs
<1>5. PICK b \in 0..255 : b = msgs[i].buf[num + 1]
  <2>1. i \in 1..Len(msgs)  BY <1>4
  <2>2. Len(msgs[i].buf) \in Nat /\ \A k \in 1..Len(msgs[i].buf) : msgs[i].buf[k] \in 0..255
    BY <1>4, <2>1, MessageIs
  <2>3. num + 1 \in 1..Len(msgs[i].buf)  BY <1>3, <1>4, <2>2
  <2> QED  BY <2>2, <2>3, Zenon
<1>6. gpio' = Frame(b) /\ Sending' = b
  <2>1. num' # 0  BY <1>3, <1>4
  <2> QED  BY <1>3, <1>5, <2>1, OperationTypes, Zenon DEF Sending
<1>7. AtFrame(0)  BY <1>1, <1>3, BetweenFrames
<1> SUFFICES ASSUME msgs # <<>>, ~Mistakable(msgs) PROVE InFrame(Len(gpio))'
  BY <1>3 DEF Delivery
<1>8. InFrame(0)
  <2>1. InFrame(Len(gpio))  BY <1>3 DEF BusSound, Delivery
  <2>2. Len(gpio) = 0  BY <1>3
  <2> QED  BY <2>1, <2>2
<1>9. PICK B \in Nat, c \in Nat : B = Behind /\ c = Sending /\ (B > 0 => Payload(msgs)[B] = c)
  BY <1>2, <1>3, PlaceIs
<1>10. Holds(B) /\ shift = 0 /\ Expects(B, c % 2 = 1) /\ Listens /\ n = 0
  BY <1>3, <1>7, <1>8, <1>9 DEF InFrame, AtFrame
<1>11. n' = 0 /\ shift' = 0 /\ Listens'
  BY <1>3, <1>10 DEF Listens
<1>12. Behind' = B + 1
  <2>1. CASE i = 1  BY <1>3, <1>9, <2>1 DEF Behind
  <2>2. CASE i = 2
    <3>1. PICK a \in Nat : a = Len(msgs[1].buf)  BY <1>2, <1>3, PlaceIs
    <3>2. Behind = a + (1 + num) /\ Behind' = a + (1 + (num + 1))
      BY <1>3, <2>2, <3>1 DEF Behind
    <3>3. num \in Nat /\ B = Behind  BY <1>4, <1>9
    <3> HIDE DEF Behind
    <3> QED  BY <3>2, <3>3
  <2> QED  BY <1>4, <2>1, <2>2
<1>13. Before' = B /\ Behind' # 0  BY <1>12 DEF Before
<1>14. Holds(B)'  BY <1>3, <1>10, HoldsStays
<1>15. Holds(Before)'  BY <1>13, <1>14
<1>16. Expects(B, Payload(msgs)[B] % 2 = 1)'
  BY <1>3, <1>9, <1>10 DEF Expects
<1> QED  BY <1>6, <1>11, <1>13, <1>15, <1>16, FrameIsNext

\* A message is counted as sent only behind its last acknowledgement.
LEMMA MessageSentDelivers ==
  ASSUME BusSound, MessageSent
  PROVE  Delivery'
<1>1. BusSafe  BY DEF BusSound, BusSafe
<1>2. BusTypeOK /\ Counters /\ Wires  BY DEF BusSound
<1>3. /\ gpio = <<>> /\ gpio' = <<>> /\ pc = "ack" /\ pc' = "message" /\ ~nack
      /\ num = Len(msgs[i].buf) /\ i' = i + 1 /\ num' = 0
      /\ UNCHANGED <<msgs, nack, scl, sda, out, pulls, state, n, shift, received>>
  BY DEF MessageSent, Goto, slave
<1>4. msgs \in Transfers /\ i \in {1, 2} /\ Len(msgs) \in {1, 2} /\ (i = 2 => Len(msgs) = 2)
  BY <1>2, <1>3, PlaceIs
<1> SUFFICES ASSUME msgs # <<>>, ~Mistakable(msgs) PROVE InMessage'
  BY <1>3 DEF Delivery
<1>5. InFrame(0)
  <2>1. InFrame(Len(gpio))  BY <1>3 DEF BusSound, Delivery
  <2>2. Len(gpio) = 0  BY <1>3
  <2> QED  BY <2>1, <2>2
<1>6. PICK B \in Nat, c \in Nat : B = Behind /\ c = Sending /\ (B > 0 => Payload(msgs)[B] = c)
  BY <1>2, <1>3, PlaceIs
<1>7. Holds(B) /\ shift = 0 /\ Expects(B, c % 2 = 1)
  BY <1>3, <1>5, <1>6 DEF InFrame
<1>8. Behind' = B
  <2>1. CASE i = 1
    <3>1. PICK a \in Nat : a = Len(msgs[1].buf)  BY <1>2, <1>3, PlaceIs
    <3>2. Behind = a  BY <1>3, <2>1, <3>1 DEF Behind
    <3>3. Behind' = a + 0  BY <1>3, <2>1, <3>1 DEF Behind
    <3> QED  BY <1>6, <3>1, <3>2, <3>3
  <2>2. CASE i = 2
    <3>1. Len(msgs) = 2  BY <1>4, <2>2
    <3>2. PICK a \in Nat, d \in Nat : a = Len(msgs[1].buf) /\ d = Len(msgs[2].buf)
      BY <1>2, <1>3, <2>2, PlaceIs
    <3>3. Behind = a + (1 + d)  BY <1>3, <2>2, <3>2 DEF Behind
    <3>4. i' = 3  BY <1>3, <2>2
    <3>5. Behind' = Len(Payload(msgs))  BY <1>3, <3>4 DEF Behind
    <3>6. Len(Payload(msgs)) = a + 1 + d  BY <1>4, <3>1, <3>2, PayloadIs
    <3>7. B = Behind  BY <1>6
    <3> QED  BY <3>3, <3>5, <3>6, <3>7
  <2> QED  BY <1>4, <2>1, <2>2
<1>9. Holds(B)'  BY <1>3, <1>7, HoldsStays
<1>10. Holds(Behind)'  BY <1>8, <1>9
<1>11. Expects(B, Payload(msgs)[B] % 2 = 1)'
  BY <1>3, <1>6, <1>7 DEF Expects
<1>12. i' # 1 /\ shift' = 0  BY <1>3, <1>4, <1>7
<1> QED  BY <1>3, <1>8, <1>10, <1>11, <1>12 DEF InMessage

\* A refused byte was not taken, so something is missing and the result says so.
LEMMA AbortDelivers ==
  ASSUME BusSound, Abort
  PROVE  Delivery'
<1>1. BusTypeOK /\ Counters /\ Wires  BY DEF BusSound
<1>2. /\ gpio = <<>> /\ pc = "ack" /\ pc' = "deinit" /\ nack /\ ret' = 0
      /\ UNCHANGED <<msgs, received>>
  BY DEF Abort, Goto, slave
<1> SUFFICES ASSUME msgs # <<>>, ~Mistakable(msgs) PROVE AtEnd'
  BY <1>2 DEF Delivery
<1>3. InFrame(0)
  <2>1. InFrame(Len(gpio))  BY <1>2 DEF BusSound, Delivery
  <2>2. Len(gpio) = 0  BY <1>2
  <2> QED  BY <2>1, <2>2
<1>4. PICK l \in Nat, B \in Nat, m \in Nat :
        /\ l = Len(Payload(msgs)) /\ B <= l /\ B = Behind
        /\ m = Before /\ m = IF B = 0 THEN 0 ELSE B - 1
  <2>1. Behind \in Nat /\ Len(Payload(msgs)) \in Nat /\ Behind <= Len(Payload(msgs))
        /\ Before = IF Behind = 0 THEN 0 ELSE Behind - 1
    BY <1>1, <1>2, PlaceIs
  <2>2. Before \in Nat  BY <2>1
  <2> QED  BY <2>1, <2>2
<1>5. Holds(m)  BY <1>2, <1>3, <1>4 DEF InFrame
<1>6. Len(received) = m  BY <1>5 DEF Holds
<1>7. received = <<>> \/ m < l
  <2>1. CASE B = 0
    <3>1. Len(received) = 0  BY <1>4, <1>6, <2>1
    <3>2. received = <<>>  BY <1>1, <3>1 DEF BusTypeOK
    <3> QED  BY <3>2
  <2>2. CASE B # 0  BY <1>4, <2>2
  <2> QED  BY <2>1, <2>2
<1>8. Holds(Len(received))'  BY <1>2, <1>5, <1>6, HoldsStays
<1>9. (received = <<>> \/ Len(received) < Len(Payload(msgs)))'
  BY <1>2, <1>4, <1>6, <1>7
<1> QED  BY <1>2, <1>8, <1>9 DEF AtEnd

\* Every message was counted, so every byte was taken.
LEMMA AllSentDelivers ==
  ASSUME BusSound, AllSent
  PROVE  Delivery'
<1>1. BusTypeOK /\ Counters /\ Wires  BY DEF BusSound
<1>2. /\ gpio = <<>> /\ pc = "message" /\ pc' = "deinit" /\ i > Len(msgs)
      /\ UNCHANGED <<msgs, ret, received>>
  BY DEF AllSent, Goto, slave, master
<1> SUFFICES ASSUME msgs # <<>>, ~Mistakable(msgs) PROVE AtEnd'
  BY <1>2 DEF Delivery
<1>3. Holds(Behind)
  BY <1>2 DEF BusSound, Delivery, InMessage
<1>4. PICK l \in {1, 2} : l = Len(msgs)
  <2>1. msgs \in Transfers  BY <1>1, <1>2 DEF Counters
  <2> QED  BY <2>1, PayloadIs
<1>5. msgs \in Transfers /\ i \in 1..3 /\ i <= l + 1 /\ ret = i - 1 /\ i > l
  BY <1>1, <1>2, <1>4 DEF Counters, BusTypeOK
<1>6. i = l + 1 /\ ret = l
  BY <1>4, <1>5
<1>7. Behind = Len(Payload(msgs))
  <2>1. CASE l = 1
    <3>1. PICK a \in Nat : a = Len(msgs[1].buf)
      <4>1. 1 \in 1..Len(msgs)  BY <1>4, <2>1
      <4> QED  BY <1>5, <4>1, MessageIs
    <3>2. i = 2  BY <1>6, <2>1
    <3>3. Behind = a + 0  BY <1>2, <3>1, <3>2 DEF Behind
    <3>4. Len(Payload(msgs)) = a  BY <1>4, <1>5, <2>1, <3>1, PayloadIs
    <3> QED  BY <3>1, <3>3, <3>4
  <2>2. CASE l = 2
    <3>1. i = 3  BY <1>6, <2>2
    <3> QED  BY <3>1 DEF Behind
  <2> QED  BY <1>4, <2>1, <2>2
<1>8. Holds(Len(Payload(msgs)))'
  <2>1. PICK m : m = Len(Payload(msgs))  OBVIOUS
  <2>2. Holds(m)'  BY <1>2, <1>3, <1>7, <2>1, HoldsStays
  <2> QED  BY <1>2, <2>1, <2>2
<1> QED  BY <1>2, <1>4, <1>6, <1>8 DEF AtEnd

\* Giving back the pins, and steps of something else.
LEMMA RestDelivers ==
  ASSUME BusSound, DeInit \/ UNCHANGED vars
  PROVE  Delivery'
<1>1. CASE DeInit
  BY <1>1 DEF DeInit, Goto, master, slave, BusSound, Delivery, AtEnd, Holds
<1>2. CASE UNCHANGED vars
  BY <1>2 DEF vars, master, slave, BusSound, Delivery, AtEnd, Holds, InMessage, InFrame,
              Behind, Before, Sending, Expects, Listens
<1> QED  BY <1>1, <1>2

\* Before the first transfer.
LEMMA SoundStarts == Init => BusSound
BY BusStarts DEF BusSafe, BusSound, Delivery, Init

\* Every step keeps the delivery.
LEMMA SoundSteps ==
  ASSUME BusSound, [Next]_vars
  PROVE  BusSound'
<1>1. BusSafe'
  BY BusSteps DEF BusSafe, BusSound
<1>2. Delivery'
  <2>1. CASE DriveSDA \/ ReadSDA \/ SetSCL \/ ClearSCL  BY <2>1, OperateDelivers DEF Operate
  <2>2. ASSUME NEW ms \in Transfers, Xfer(ms) PROVE Delivery'  BY <2>2, XferDelivers
  <2>3. CASE SendAddr  BY <2>3, SendAddrDelivers
  <2>4. CASE SendByte  BY <2>4, SendByteDelivers
  <2>5. CASE MessageSent  BY <2>5, MessageSentDelivers
  <2>6. CASE Abort  BY <2>6, AbortDelivers
  <2>7. CASE AllSent  BY <2>7, AllSentDelivers
  <2>8. CASE DeInit \/ UNCHANGED vars  BY <2>8, RestDelivers
  <2> QED  BY <2>1, <2>2, <2>3, <2>4, <2>5, <2>6, <2>7, <2>8 DEF Next
<1> QED  BY <1>1, <1>2 DEF BusSafe, BusSound

\* The strengthened invariant of the bus, for every slave address and any transfers of
\* one or two messages.
THEOREM BusIsSound == Spec => []BusSound
BY SoundStarts, SoundSteps, PTL DEF Spec

\* Whatever the slave refuses and whatever its acknowledgements meet on the wire, the
\* bytes arrive in order, none twice and none changed, and etx_i2c_xfer reports success
\* exactly if all did, unless one of them is mistakable.
THEOREM BytesArrive == Spec => []ReportedAsReceived
<1>1. ASSUME BusSound PROVE ReportedAsReceived
  <2> SUFFICES ASSUME msgs # <<>>, ~Mistakable(msgs)
               PROVE  /\ Len(received) <= Len(Payload(msgs))
                      /\ received = SubSeq(Payload(msgs), 1, Len(received))
                      /\ pc = "idle" /\ ret = Len(msgs) => received = Payload(msgs)
                      /\ pc = "idle" /\ received = Payload(msgs) /\ received # <<>> =>
                           ret = Len(msgs)
    BY DEF ReportedAsReceived
  <2>1. BusTypeOK /\ Counters /\ Wires /\ Delivery  BY <1>1 DEF BusSound
  <2>2. /\ pc = "message" => InMessage
        /\ pc = "ack" => InFrame(Len(gpio))
        /\ pc \in {"deinit", "idle"} => AtEnd
    BY <2>1 DEF Delivery
  <2>3. msgs \in Transfers  BY <2>1 DEF BusTypeOK
  <2>4. PICK p \in Seq(0..255) : p = Payload(msgs)  BY <2>3, PayloadIs
  <2>5. PICK r \in Seq(Nat) : r = received  BY <2>1 DEF BusTypeOK
  <2>6. Len(r) <= Len(p) /\ \A j \in 1..Len(r) : r[j] = p[j]
    <3>1. \A m : Holds(m) => Len(r) <= Len(p) /\ \A j \in 1..Len(r) : r[j] = p[j]
      BY <2>4, <2>5 DEF Holds
    <3>2. CASE pc = "message"  BY <2>2, <3>1, <3>2 DEF InMessage
    <3>3. CASE pc = "ack"
      <4>1. InFrame(Len(gpio)) /\ Len(gpio) \in Nat /\ Len(gpio) <= 27
        BY <2>1, <2>2, <3>3 DEF BusTypeOK, Wires
      <4>2. PICK k \in Nat : k = Len(gpio)  BY <4>1
      <4>3. InFrame(k)  BY <4>1, <4>2
      <4>4. k > 3 \/ k \in {1, 2, 3} \/ k = 0  BY <4>2
      <4> QED  BY <3>1, <4>3, <4>4 DEF InFrame
    <3>4. CASE pc \in {"deinit", "idle"}  BY <2>2, <3>1, <3>4 DEF AtEnd
    <3> QED  BY <2>1, <3>2, <3>3, <3>4 DEF BusTypeOK
  <2>7. r = SubSeq(p, 1, Len(r))
    BY <2>6
  <2>8. ASSUME pc = "idle"
        PROVE  /\ ret = Len(msgs) => r = p
               /\ r = p /\ r # <<>> => ret = Len(msgs)
    <3>1. PICK l \in {1, 2} : l = Len(msgs)  BY <2>3, PayloadIs
    <3>2. AtEnd  BY <2>2, <2>8
    <3>3. CASE ret = l /\ Holds(Len(p))
      <4>1. Len(r) = Len(p)  BY <2>5, <3>3 DEF Holds
      <4>2. r = p  BY <2>6, <4>1
      <4> QED  BY <3>1, <3>3, <4>2
    <3>4. CASE ret = 0 /\ (r = <<>> \/ Len(r) < Len(p))
      <4>1. ret # Len(msgs)  BY <3>1, <3>4
      <4>2. ~(r = p /\ r # <<>>)  BY <3>4
      <4> QED  BY <4>1, <4>2
    <3> QED  BY <2>4, <2>5, <3>1, <3>2, <3>3, <3>4 DEF AtEnd
  <2> QED  BY <2>4, <2>5, <2>6, <2>7, <2>8
<1> QED  BY <1>1, BusIsSound, PTL
=============================================================================
